---- MODULE Spec2Model ----
(***************************************************************************)
(* A model of rclean's similarity clustering, outlier detection and MCP    *)
(* server: src/src/clustering.rs, src/src/outliers.rs, src/src/mcp_server. *)
(*                                                                         *)
(* Conventions.  Option<T> is a sequence of length at most one (None is    *)
(* <<>>, Some(x) is <<x>>).  Vec<T> is a sequence; an index of the source  *)
(* is 0-based, so element k of a Vec v is v[k + 1].  A path is a natural   *)
(* number.  An f64 that holds an integer is that integer; a quotient is    *)
(* kept as the pair of its numerator and denominator.  A fuzzy hash        *)
(* "<blocksize>:<chunk1>:<chunk2>" is the record of its colon separated    *)
(* fields.  ssdeep::compare is a primitive of another crate: its results   *)
(* are the table `compare`, chosen freely when a run starts.               *)
(***************************************************************************)
EXTENDS Integers, Sequences, FiniteSets, TLC

VARIABLES
    ret,                \* where detect_large_file_clusters returns to
    pc,                 \* the position of the run
    compare,            \* ssdeep::compare, as a table over pairs of hashes
    files,              \* detect_large_file_clusters: files
    min_similarity,     \* detect_large_file_clusters: min_similarity (u8)
    min_cluster_size,   \* detect_large_file_clusters: min_cluster_size
    hashable_files,     \* detect_large_file_clusters: hashable_files
    distances,          \* detect_large_file_clusters: distances
    epsilon,            \* detect_large_file_clusters: epsilon
    labels,             \* simple_dbscan: labels
    visited,            \* simple_dbscan: visited
    cluster_id,         \* simple_dbscan: cluster_id
    idx,                \* simple_dbscan: the loop variable i
    seed_set,           \* expand_cluster: seed_set
    cursor,             \* expand_cluster: the loop variable i
    result,             \* what detect_large_file_clusters returned
    batch_files,        \* detect_clusters_batched: files
    batch_size,         \* detect_clusters_batched: batch_size
    lsh_buckets,        \* detect_clusters_batched: lsh_buckets.values()
    bucket,             \* detect_clusters_batched: the bucket the loop is at
    all_clusters,       \* detect_clusters_batched: all_clusters
    batched_result,     \* what detect_clusters_batched returned
    clusters,           \* merge_overlapping_clusters: clusters
    merged,             \* what merge_overlapping_clusters returned
    walk,               \* detect_outliers: what walk_with_options returns
    file_infos,         \* detect_outliers: file_infos
    options,            \* detect_outliers: options
    large_files,        \* what detect_large_file_outliers returned
    hidden_consumers,   \* detect_outliers: hidden_consumers
    pattern_groups,     \* detect_outliers: pattern_groups
    report,             \* what detect_outliers returned
    again,              \* what a second call of aggregate_clusters returned
    s1,                 \* prop_similarity_distance_monotonic: s1
    s2,                 \* prop_similarity_distance_monotonic: s2
    d1,                 \* prop_similarity_distance_monotonic: d1
    d2,                 \* prop_similarity_distance_monotonic: d2
    request,            \* McpServer::run: the request read from the line
    response,           \* McpServer::run: the response to write
    stdin,              \* McpServer::run: the lines of the standard input
    consumed,           \* McpServer::run: how many of them read_line has returned
    stdout,             \* McpServer::run: the lines written and flushed
    run_result,         \* what McpServer::run returned
    upper_triangle      \* build_distance_matrix: upper_triangle

\* The state of a call of detect_large_file_clusters.
detectVars == <<files, hashable_files, distances, epsilon, labels, visited,
                cluster_id, idx, seed_set, cursor, result>>
\* The state of a call of detect_clusters_batched.
batchVars == <<batch_files, batch_size, lsh_buckets, bucket, all_clusters,
               batched_result>>
\* The state of a call of merge_overlapping_clusters.
mergeVars == <<clusters, merged>>
\* The state of a call of detect_outliers.
outlierVars == <<walk, file_infos, options, large_files, hidden_consumers,
                 pattern_groups, report>>
\* The bindings of the property test of similarity_to_distance.
propVars == <<s1, s2, d1, d2>>
\* The state of the MCP server.
serverVars == <<stdin, consumed, stdout, run_result>>
mcpVars == <<request, response, serverVars>>
\* The results of the parallel tasks of build_distance_matrix.
taskVars == <<upper_triangle>>
\* What no step of detect_large_file_clusters touches.
callerVars == <<ret, compare, min_similarity, min_cluster_size, batchVars,
                mergeVars, outlierVars, again, propVars, mcpVars, taskVars>>

vars == <<pc, detectVars, callerVars>>

(***************************************************************************)
(* Bounds of the model.                                                    *)
(***************************************************************************)
MaxFiles == 4
MaxMinClusterSize == 4

(***************************************************************************)
(* Values of the inputs.                                                   *)
(***************************************************************************)
\* The size of the file at path p: sizes grow with the index, as in the
\* generator of the property tests.
SizeOfPath(p) == p
\* min_similarity is a u8: values below, on and above both ends of 50..=100.
MinSimilarityValues == {0, 49, 50, 100, 101, 255}
\* Scores ssdeep::compare gives a pair of hashes.
LowScore == 40
HighScore == 90
Scores == {LowScore, HighScore}

None == <<>>
Some(x) == <<x>>
IsSome(o) == o # None

\* (0..n) of the source, as a Vec.
Range0(n) == [k \in 1..n |-> k - 1]
Contains(s, x) == \E k \in 1..Len(s) : s[k] = x

RECURSIVE SumSeq(_)
SumSeq(s) == IF s = <<>> THEN 0 ELSE Head(s) + SumSeq(Tail(s))

\* A fuzzy hash with three fields, of block size 3; `rest` tells the hashes
\* of two files apart.
PlainHash(p) == [fields |-> 3, block |-> 3, chunk |-> 1, rest |-> p]
NewFile(p, h) == [path |-> p, size_bytes |-> SizeOfPath(p), ssdeep_hash |-> h]

\* The pairs of hashes build_distance_matrix hands to ssdeep::compare.
HashPairs(fs) ==
    {<<fs[a].ssdeep_hash[1], fs[b].ssdeep_hash[1]>> :
        <<a, b>> \in {ab \in (1..Len(fs)) \X (1..Len(fs)) :
                        /\ ab[1] < ab[2]
                        /\ IsSome(fs[ab[1]].ssdeep_hash)
                        /\ IsSome(fs[ab[2]].ssdeep_hash)}}

(***************************************************************************)
(* clustering.rs                                                           *)
(***************************************************************************)
\* A conversion that rounds the similarity down to a multiple of ten.
DistanceInTens(similarity) == 100 - (similarity \div 10) * 10

similarity_to_distance(similarity) == 100 - similarity

\* Result<u8, _>::unwrap_or(0) over ssdeep::compare.
calculate_similarity_safe(a, b) ==
    IF IsSome(a.ssdeep_hash) /\ IsSome(b.ssdeep_hash)
    THEN LET r == compare[<<a.ssdeep_hash[1], b.ssdeep_hash[1]>>]
         IN  IF IsSome(r) THEN r[1] ELSE 0
    ELSE 0

\* build_distance_matrix without `distances[[j, i]] = dist`: the lower
\* triangle keeps its zeros.
BuildUpperTriangleOnly(fs) ==
    LET n == Len(fs)
        upper(i, j) ==
            similarity_to_distance(calculate_similarity_safe(fs[i + 1], fs[j + 1]))
    IN  [i \in 0..(n - 1) |->
            [j \in 0..(n - 1) |-> IF i < j THEN upper(i, j) ELSE 0]]

\* The upper triangle is computed pair by pair and mirrored into a matrix of
\* zeros.
build_distance_matrix(fs) ==
    LET n == Len(fs)
        upper(i, j) ==
            similarity_to_distance(calculate_similarity_safe(fs[i + 1], fs[j + 1]))
    IN  [i \in 0..(n - 1) |->
            [j \in 0..(n - 1) |->
                IF i < j THEN upper(i, j)
                ELSE IF j < i THEN upper(j, i)
                ELSE 0]]

\* (50..100).contains(&v): the range without its upper end.
ValidSimilarityHalfOpen(v) == v >= 50 /\ v < 100

\* (50..=100).contains(&v)
ValidSimilarity(v) == v >= 50 /\ v <= 100

Ok(v) == [kind |-> "Ok", clusters |-> v, error |-> <<>>]
Err(e) == [kind |-> "Err", clusters |-> <<>>, error |-> e]
Pending == [kind |-> "Pending", clusters |-> <<>>, error |-> <<>>]
InvalidSimilarity(v) == <<"InvalidSimilarity", v>>

\* The points at a distance below epsilon, those at epsilon left out.
NeighborsStrictlyWithin(dist, eps, q) ==
    SelectSeq(Range0(Cardinality(DOMAIN dist)), LAMBDA j : dist[q][j] < eps)

\* The epsilon neighbourhood of point q, in ascending order.
Neighbors(dist, eps, q) ==
    SelectSeq(Range0(Cardinality(DOMAIN dist)), LAMBDA j : dist[q][j] <= eps)

calculate_avg_similarity(indices, dist) ==
    IF Len(indices) <= 1 THEN <<100, 1>>
    ELSE LET pairs == {ab \in (1..Len(indices)) \X (1..Len(indices)) : ab[1] < ab[2]}
             RECURSIVE Total(_)
             Total(ps) ==
                 IF ps = {} THEN 0
                 ELSE LET ab == CHOOSE x \in ps : TRUE
                      IN  (100 - dist[indices[ab[1]]][indices[ab[2]]]) + Total(ps \ {ab})
         IN  IF Cardinality(pairs) > 0 THEN <<Total(pairs), Cardinality(pairs)>>
             ELSE <<100, 1>>

DensityCut == 30

\* The density with the edges of distance 30 counted in.
DensityUpToCut(indices, dist) ==
    IF Len(indices) <= 1 THEN <<1, 1>>
    ELSE <<Cardinality({ab \in (1..Len(indices)) \X (1..Len(indices)) :
                           /\ ab[1] < ab[2]
                           /\ dist[indices[ab[1]]][indices[ab[2]]] <= DensityCut}),
           (Len(indices) * (Len(indices) - 1)) \div 2>>

calculate_density(indices, dist) ==
    IF Len(indices) <= 1 THEN <<1, 1>>
    ELSE LET max_edges == (Len(indices) * (Len(indices) - 1)) \div 2
             within == {ab \in (1..Len(indices)) \X (1..Len(indices)) :
                           /\ ab[1] < ab[2]
                           /\ dist[indices[ab[1]]][indices[ab[2]]] < DensityCut}
         IN  <<Cardinality(within), max_edges>>

build_cluster_info(id, indices, fs, dist) ==
    LET cluster_files == [k \in 1..Len(indices) |-> fs[indices[k] + 1]]
    IN  [cluster_id |-> id,
         files |-> cluster_files,
         total_size |-> SumSeq([k \in 1..Len(cluster_files) |-> cluster_files[k].size_bytes]),
         avg_similarity |-> calculate_avg_similarity(indices, dist),
         density |-> calculate_density(indices, dist)]

\* ClusterMap with the label test dropped: every labelled index under every
\* key.
ClusterMapAnyLabel(lbls) ==
    [id \in {lbls[k][1] : k \in {j \in DOMAIN lbls : IsSome(lbls[j])}} |->
        SelectSeq(Range0(Cardinality(DOMAIN lbls)), LAMBDA j : IsSome(lbls[j]))]

\* cluster_map: the indices that carry each label, in ascending order.
ClusterMap(lbls) ==
    [id \in {lbls[k][1] : k \in {j \in DOMAIN lbls : IsSome(lbls[j])}} |->
        SelectSeq(Range0(Cardinality(DOMAIN lbls)), LAMBDA j : lbls[j] = Some(id))]

\* The orders in which a HashMap may hand out the keys ks.
KeyOrders(ks) ==
    {s \in [1..Cardinality(ks) -> ks] : \A a, b \in DOMAIN s : a # b => s[a] # s[b]}

\* aggregate_clusters: one cluster per key of cluster_map, in the order the
\* HashMap iterates, which the program does not control.
aggregate_clusters(fs, cluster_labels, dist) ==
    LET cluster_map == ClusterMap(cluster_labels)
    IN  {[k \in DOMAIN order |->
            build_cluster_info(order[k], cluster_map[order[k]], fs, dist)] :
         order \in KeyOrders(DOMAIN cluster_map)}

(***************************************************************************)
(* detect_large_file_clusters, up to the call of simple_dbscan.            *)
(***************************************************************************)
Return(r) ==
    /\ result' = r
    /\ pc' = ret

\* Every file kept, with or without a hash.
KeepEveryFile(fs) == fs

\* files.iter().filter(|f| f.ssdeep_hash.is_some()).cloned().collect()
HashableFiles(fs) == SelectSeq(fs, LAMBDA f : IsSome(f.ssdeep_hash))

detect_large_file_clusters ==
    /\ pc = "detect"
    /\ IF ~ValidSimilarity(min_similarity)
       THEN /\ Return(Err(InvalidSimilarity(min_similarity)))
            /\ UNCHANGED <<hashable_files, distances, epsilon>>
       ELSE IF Len(files) < min_cluster_size
       THEN /\ Return(Ok(<<>>))
            /\ UNCHANGED <<hashable_files, distances, epsilon>>
       ELSE LET hashable == HashableFiles(files)
            IN  /\ hashable_files' = hashable
                /\ IF Len(hashable) < min_cluster_size
                   THEN /\ Return(Ok(<<>>))
                        /\ UNCHANGED <<distances, epsilon>>
                   ELSE /\ distances' = build_distance_matrix(hashable)
                        /\ epsilon' = similarity_to_distance(min_similarity)
                        /\ pc' = "simple_dbscan"
                        /\ UNCHANGED result
    /\ UNCHANGED <<callerVars, files, labels, visited, cluster_id, idx,
                   seed_set, cursor>>

(***************************************************************************)
(* simple_dbscan and expand_cluster, one loop iteration a step.            *)
(***************************************************************************)
NumPoints == Cardinality(DOMAIN distances)

simple_dbscan ==
    /\ pc = "simple_dbscan"
    /\ labels' = [k \in 0..(NumPoints - 1) |-> None]
    /\ visited' = [k \in 0..(NumPoints - 1) |-> FALSE]
    /\ cluster_id' = 0
    /\ idx' = 0
    /\ pc' = "scan"
    /\ UNCHANGED <<callerVars, files, hashable_files, distances, epsilon,
                   seed_set, cursor, result>>

\* One iteration of `for i in 0..n`, up to the loop of expand_cluster.
IsCore(neighbors, min_points) == Len(neighbors) >= min_points

dbscan_visit ==
    /\ pc = "scan"
    /\ idx < NumPoints
    /\ IF visited[idx]
       THEN /\ idx' = idx + 1
            /\ UNCHANGED <<labels, visited, seed_set, cursor, pc>>
       ELSE LET neighbors == Neighbors(distances, epsilon, idx)
            IN  /\ visited' = [visited EXCEPT ![idx] = TRUE]
                /\ IF IsCore(neighbors, min_cluster_size)
                   THEN /\ labels' = [labels EXCEPT ![idx] = Some(cluster_id)]
                        /\ seed_set' = neighbors
                        /\ cursor' = 0
                        /\ pc' = "expand"
                        /\ UNCHANGED idx
                   ELSE /\ idx' = idx + 1
                        /\ UNCHANGED <<labels, seed_set, cursor, pc>>
    /\ UNCHANGED <<callerVars, files, hashable_files, distances, epsilon,
                   cluster_id, result>>

\* A seed_set that the neighbours of a core point q are not pushed to.
PushNone(seeds, q_neighbors) == seeds

\* A seed_set that every neighbour of a core point q is pushed to, in the
\* list already or not.
PushAll(seeds, q_neighbors) == seeds \o q_neighbors

\* seed_set after the neighbours of a core point q were pushed.
RECURSIVE PushNew(_, _)
PushNew(seeds, q_neighbors) ==
    IF q_neighbors = <<>> THEN seeds
    ELSE PushNew(IF Contains(seeds, Head(q_neighbors)) THEN seeds
                 ELSE Append(seeds, Head(q_neighbors)),
                 Tail(q_neighbors))

\* A loop body that leaves the label of a seed as it finds it.
KeepLabel(old, id) == old

\* A loop body that gives every seed the id of the cluster being expanded.
OverwriteLabel(old, id) == Some(id)

\* The label of a seed q once the loop body is through with it.
ClaimLabel(old, id) == IF old = None THEN Some(id) ELSE old

\* One iteration of `while i < seed_set.len()`.
expand_cluster_step ==
    /\ pc = "expand"
    /\ cursor < Len(seed_set)
    /\ LET q == seed_set[cursor + 1]
           q_neighbors == Neighbors(distances, epsilon, q)
       IN  /\ IF ~visited[q]
              THEN /\ visited' = [visited EXCEPT ![q] = TRUE]
                   /\ seed_set' = IF IsCore(q_neighbors, min_cluster_size)
                                  THEN PushNew(seed_set, q_neighbors)
                                  ELSE seed_set
              ELSE UNCHANGED <<visited, seed_set>>
           /\ labels' = [labels EXCEPT ![q] = ClaimLabel(labels[q], cluster_id)]
    /\ cursor' = cursor + 1
    /\ UNCHANGED <<callerVars, pc, files, hashable_files, distances, epsilon,
                   cluster_id, idx, result>>

\* An id after the next one.
SkipClusterId(id) == id + 2

\* cluster_id += 1
NextClusterId(id) == id + 1

\* expand_cluster returns; the iteration of simple_dbscan ends.
expand_cluster_return ==
    /\ pc = "expand"
    /\ cursor >= Len(seed_set)
    /\ cluster_id' = NextClusterId(cluster_id)
    /\ idx' = idx + 1
    /\ pc' = "scan"
    /\ UNCHANGED <<callerVars, files, hashable_files, distances, epsilon,
                   labels, visited, seed_set, cursor, result>>

\* simple_dbscan returns the labels; detect_large_file_clusters aggregates.
detect_return ==
    /\ pc = "scan"
    /\ idx >= NumPoints
    /\ \E found \in aggregate_clusters(hashable_files, labels, distances) :
          Return(Ok(found))
    /\ UNCHANGED <<callerVars, files, hashable_files, distances, epsilon,
                   labels, visited, cluster_id, idx, seed_set, cursor>>

\* A call of aggregate_clusters on the files, the labels and the matrix.
aggregate_call ==
    /\ pc = "aggregate"
    /\ \E found \in aggregate_clusters(hashable_files, labels, distances) :
          result' = Ok(found)
    /\ pc' = "aggregated"
    /\ UNCHANGED <<callerVars, files, hashable_files, distances, epsilon,
                   labels, visited, cluster_id, idx, seed_set, cursor>>

\* A second call of aggregate_clusters on the same files, labels and matrix:
\* it builds a cluster_map of its own.
aggregate_again ==
    /\ pc = "aggregated"
    /\ \E found \in aggregate_clusters(hashable_files, labels, distances) :
          again' = Ok(found)
    /\ pc' = "aggregated_twice"
    /\ UNCHANGED <<detectVars, ret, compare, min_similarity, min_cluster_size,
                   batchVars, mergeVars, outlierVars, propVars, mcpVars, taskVars>>

AggregateTwiceNext ==
    \/ aggregate_call
    \/ aggregate_again

\* simple_dbscan on its own, as its unit test calls it.
DbscanNext ==
    \/ simple_dbscan
    \/ dbscan_visit
    \/ expand_cluster_step
    \/ expand_cluster_return

DetectNext ==
    \/ detect_large_file_clusters
    \/ simple_dbscan
    \/ dbscan_visit
    \/ expand_cluster_step
    \/ expand_cluster_return
    \/ detect_return

(***************************************************************************)
(* merge_overlapping_clusters                                              *)
(***************************************************************************)
SizesOf(fs) == [k \in 1..Len(fs) |-> fs[k].size_bytes]

\* The loop `for file in &other.files`: a file is pushed when its path is
\* new to file_paths.
RECURSIVE PushUnseen(_, _, _)
PushUnseen(fs, file_paths, other_files) ==
    IF other_files = <<>> THEN [files |-> fs, file_paths |-> file_paths]
    ELSE LET file == Head(other_files)
         IN  IF file.path \in file_paths
             THEN PushUnseen(fs, file_paths, Tail(other_files))
             ELSE PushUnseen(Append(fs, file), file_paths \cup {file.path},
                             Tail(other_files))

\* The inner loop over the clusters after cluster i, from position j on.
RECURSIVE Absorb(_, _, _, _, _)
Absorb(cs, j, merged_cluster, file_paths, processed) ==
    IF j > Len(cs) THEN [cluster |-> merged_cluster, processed |-> processed]
    ELSE IF j \in processed
    THEN Absorb(cs, j + 1, merged_cluster, file_paths, processed)
    ELSE LET other == cs[j]
             overlap == \E k \in 1..Len(other.files) :
                            other.files[k].path \in file_paths
         IN  IF overlap
             THEN LET pushed == PushUnseen(merged_cluster.files, file_paths,
                                           other.files)
                  IN  Absorb(cs, j + 1,
                             [merged_cluster EXCEPT
                                 !.files = pushed.files,
                                 !.total_size = @ + other.total_size],
                             pushed.file_paths, processed \cup {j})
             ELSE Absorb(cs, j + 1, merged_cluster, file_paths, processed)

\* "Recalculate metrics": total_size from the files of the merged cluster.
Recalculate(cluster) ==
    [cluster EXCEPT !.total_size = SumSeq(SizesOf(cluster.files))]

\* The outer loop, from cluster i on.
RECURSIVE MergeLoop(_, _, _, _)
MergeLoop(cs, i, processed, out) ==
    IF i > Len(cs) THEN out
    ELSE IF i \in processed THEN MergeLoop(cs, i + 1, processed, out)
    ELSE LET file_paths == {cs[i].files[k].path : k \in 1..Len(cs[i].files)}
             r == Absorb(cs, i + 1, cs[i], file_paths, processed)
         IN  MergeLoop(cs, i + 1, r.processed \cup {i},
                       Append(out, Recalculate(r.cluster)))

merge_overlapping_clusters(cs) ==
    IF cs = <<>> THEN <<>> ELSE MergeLoop(cs, 1, {}, <<>>)

\* A call of merge_overlapping_clusters.
merge_call ==
    /\ pc = "merge"
    /\ merged' = merge_overlapping_clusters(clusters)
    /\ pc' = "merged"
    /\ UNCHANGED <<detectVars, ret, compare, min_similarity, min_cluster_size,
                   batchVars, outlierVars, clusters, again, propVars, mcpVars, taskVars>>

(***************************************************************************)
(* detect_clusters_batched                                                 *)
(***************************************************************************)
\* hash_combine: the bucket key.  DefaultHasher is taken to send different
\* (block_size, chunk) pairs to different keys.
hash_combine(block_size, chunk) == <<block_size, chunk>>

\* A bucket key made of every field of the hash.
BucketKeyOfWholeHash(file) ==
    IF IsSome(file.ssdeep_hash) /\ file.ssdeep_hash[1].fields >= 3
    THEN Some(<<hash_combine(file.ssdeep_hash[1].block, file.ssdeep_hash[1].chunk),
                file.ssdeep_hash[1].rest>>)
    ELSE None

\* The bucket key of a file, None for a file that goes to no bucket.
BucketKey(file) ==
    IF IsSome(file.ssdeep_hash) /\ file.ssdeep_hash[1].fields >= 3
    THEN Some(hash_combine(file.ssdeep_hash[1].block, file.ssdeep_hash[1].chunk))
    ELSE None

compute_lsh_buckets(fs) ==
    [key \in {BucketKey(fs[k])[1] : k \in {j \in 1..Len(fs) : IsSome(BucketKey(fs[j]))}} |->
        SelectSeq(fs, LAMBDA f : BucketKey(f) = Some(key))]

\* detect_large_file_clusters is called on fs and returns to `to`.
Call(fs, to) ==
    /\ files' = fs
    /\ ret' = to
    /\ pc' = "detect"
    /\ hashable_files' = <<>>
    /\ distances' = <<>>
    /\ epsilon' = 0
    /\ labels' = <<>>
    /\ visited' = <<>>
    /\ cluster_id' = 0
    /\ idx' = 0
    /\ seed_set' = <<>>
    /\ cursor' = 0
    /\ result' = Pending

\* The entry of detect_clusters_batched, up to the loop over the buckets.
detect_clusters_batched ==
    /\ pc = "batched"
    /\ IF Len(batch_files) <= batch_size
       THEN /\ Call(batch_files, "delegate_return")
            /\ UNCHANGED <<lsh_buckets, bucket, all_clusters>>
       ELSE /\ \E order \in KeyOrders(DOMAIN compute_lsh_buckets(batch_files)) :
                  lsh_buckets' = [k \in DOMAIN order |->
                                     compute_lsh_buckets(batch_files)[order[k]]]
            /\ all_clusters' = <<>>
            /\ bucket' = 0
            /\ pc' = "buckets"
            /\ UNCHANGED <<detectVars, ret>>
    /\ UNCHANGED <<compare, min_similarity, min_cluster_size, batch_files,
                   batch_size, batched_result, mergeVars,
                   again, propVars, mcpVars, taskVars, outlierVars>>

\* The small batch: what detect_large_file_clusters returned is returned.
delegate_return ==
    /\ pc = "delegate_return"
    /\ batched_result' = result
    /\ pc' = "batched_returned"
    /\ UNCHANGED <<detectVars, ret, compare, min_similarity, min_cluster_size,
                   batch_files, batch_size, lsh_buckets, bucket, all_clusters,
                   mergeVars, again, propVars, mcpVars, taskVars, outlierVars>>

\* One iteration of `for bucket in lsh_buckets.values()`, up to the call.
next_bucket ==
    /\ pc = "buckets"
    /\ bucket < Len(lsh_buckets)
    /\ IF Len(lsh_buckets[bucket + 1]) >= min_cluster_size
       THEN /\ Call(lsh_buckets[bucket + 1], "bucket_return")
            /\ UNCHANGED bucket
       ELSE /\ bucket' = bucket + 1
            /\ UNCHANGED <<detectVars, ret, pc>>
    /\ UNCHANGED <<compare, min_similarity, min_cluster_size, batch_files,
                   batch_size, lsh_buckets, all_clusters, batched_result,
                   mergeVars, again, propVars, mcpVars, taskVars, outlierVars>>

\* The `?` and the extend after the call.
bucket_return ==
    /\ pc = "bucket_return"
    /\ IF result.kind = "Err"
       THEN /\ batched_result' = result
            /\ pc' = "batched_returned"
            /\ UNCHANGED <<bucket, all_clusters>>
       ELSE /\ all_clusters' = all_clusters \o result.clusters
            /\ bucket' = bucket + 1
            /\ pc' = "buckets"
            /\ UNCHANGED batched_result
    /\ UNCHANGED <<detectVars, ret, compare, min_similarity, min_cluster_size,
                   batch_files, batch_size, lsh_buckets, mergeVars,
                   again, propVars, mcpVars, taskVars, outlierVars>>

\* After the loop: the clusters of all buckets are merged and returned.
batched_merge ==
    /\ pc = "buckets"
    /\ bucket >= Len(lsh_buckets)
    /\ batched_result' = Ok(merge_overlapping_clusters(all_clusters))
    /\ pc' = "batched_returned"
    /\ UNCHANGED <<detectVars, ret, compare, min_similarity, min_cluster_size,
                   batch_files, batch_size, lsh_buckets, bucket, all_clusters,
                   mergeVars, again, propVars, mcpVars, taskVars, outlierVars>>

BatchedNext ==
    \/ detect_clusters_batched
    \/ delegate_return
    \/ next_bucket
    \/ bucket_return
    \/ batched_merge
    \/ DetectNext

(***************************************************************************)
(* outliers.rs: detect_large_file_outliers.                                *)
(*                                                                         *)
(* The f64 arithmetic is exact here.  A quotient a / b is the pair <<a, b>>*)
(* in lowest terms with b > 0; a value x / sqrt(v) (a z-score) is the      *)
(* record of the quotients x and v.  Sizes are small numbers, counted in   *)
(* units of 65536 bytes, so that the squares stay within TLC's integers.   *)
(***************************************************************************)
Abs(a) == IF a < 0 THEN -a ELSE a

RECURSIVE GCD(_, _)
GCD(a, b) == IF b = 0 THEN a ELSE GCD(b, a % b)

\* a / b as an f64 holds it; <<a, 0>> is the NaN or infinity of a division
\* by zero.
Quot(a, b) ==
    IF b = 0 THEN <<a, 0>>
    ELSE LET g == GCD(Abs(a), Abs(b))
             sign == IF b < 0 THEN -1 ELSE 1
         IN  <<(sign * a) \div g, (sign * b) \div g>>

QSub(x, y) == Quot(x[1] * y[2] - y[1] * x[2], x[2] * y[2])
QAdd(x, y) == Quot(x[1] * y[2] + y[1] * x[2], x[2] * y[2])
QMul(x, y) == Quot(x[1] * y[1], x[2] * y[2])
QDiv(x, y) == Quot(x[1] * y[2], x[2] * y[1])
QLess(x, y) == x[1] * y[2] < y[1] * x[2]

RECURSIVE QSum(_)
QSum(s) == IF s = <<>> THEN <<0, 1>> ELSE QAdd(Head(s), QSum(Tail(s)))

\* The z-score 0.0.
ZeroScore == [diff |-> <<0, 1>>, variance |-> <<1, 1>>]

\* z > threshold, for z = diff / sqrt(variance) with variance > 0: the signs
\* decide, or else the squares do.
ScoreExceeds(z, threshold) ==
    LET square == QDiv(QMul(z.diff, z.diff), z.variance)
        bound == QMul(threshold, threshold)
    IN  IF z.diff[1] >= 0 /\ threshold[1] < 0 THEN TRUE
        ELSE IF z.diff[1] < 0 /\ threshold[1] >= 0 THEN FALSE
        ELSE IF z.diff[1] >= 0 THEN QLess(bound, square)
        ELSE QLess(square, bound)

\* The number of size units in 1024 * 1024 bytes.
MiB == 16

\* The mean and the variance of the sizes, as lines 232 to 241 compute them.
MeanOf(fs) == Quot(SumSeq(SizesOf(fs)), Len(fs))
VarianceOf(fs) ==
    LET mean == MeanOf(fs)
        squares == [k \in 1..Len(fs) |->
                       LET diff == QSub(<<fs[k].size_bytes, 1>>, mean)
                       IN  QMul(diff, diff)]
    IN  QDiv(QSum(squares), <<Len(fs), 1>>)

\* z_score of file f: 0.0 unless std_dev > 0.0.
z_score(f, mean, variance) ==
    IF variance[1] > 0
    THEN [diff |-> QSub(<<f.size_bytes, 1>>, mean), variance |-> variance]
    ELSE ZeroScore

\* `z_score >= options.std_dev_threshold` in place of `>`.
IsOutlierInclusive(z, threshold) ==
    ~ScoreExceeds([z EXCEPT !.diff = <<-(@[1]), @[2]>>],
                  <<-(threshold[1]), threshold[2]>>)

\* z_score > options.std_dev_threshold
IsOutlier(z, threshold) == ScoreExceeds(z, threshold)

\* The closure of filter_map: the outlier of file f, or None.
OutlierOf(f, mean, variance, total_size, opts) ==
    IF IsSome(opts.min_size) /\ f.size_bytes < opts.min_size[1] THEN None
    ELSE LET z == z_score(f, mean, variance)
         IN  IF IsOutlier(z, opts.std_dev_threshold)
             THEN Some([path |-> f.path,
                        size_bytes |-> f.size_bytes,
                        size_mb |-> Quot(f.size_bytes, MiB),
                        percentage_of_total |-> Quot(f.size_bytes * 100, total_size),
                        std_devs_from_mean |-> z])
             ELSE None

\* filter_map(...).collect()
RECURSIVE FilterMap(_, _, _, _, _)
FilterMap(fs, mean, variance, total_size, opts) ==
    IF fs = <<>> THEN <<>>
    ELSE OutlierOf(Head(fs), mean, variance, total_size, opts)
             \o FilterMap(Tail(fs), mean, variance, total_size, opts)

\* The list left in the order it was collected in.
KeepCollectedOrder(s, field) == s

\* sort_by(|a, b| b.field.cmp(&a.field)): a stable sort, largest first.
RECURSIVE InsertDescending(_, _, _)
InsertDescending(sorted, x, field) ==
    IF sorted = <<>> THEN <<x>>
    ELSE IF Head(sorted)[field] >= x[field]
    THEN <<Head(sorted)>> \o InsertDescending(Tail(sorted), x, field)
    ELSE <<x>> \o sorted

RECURSIVE SortDescending(_, _)
SortDescending(s, field) ==
    IF s = <<>> THEN <<>>
    ELSE InsertDescending(SortDescending(SubSeq(s, 1, Len(s) - 1), field),
                          s[Len(s)], field)

Truncate(s, n) == IF Len(s) > n THEN SubSeq(s, 1, n) ELSE s

detect_large_file_outliers(fs, total_size, opts) ==
    IF fs = <<>> THEN <<>>
    ELSE LET outliers == SortDescending(
                             FilterMap(fs, MeanOf(fs), VarianceOf(fs), total_size, opts),
                             "size_bytes")
         IN  IF IsSome(opts.top_n) THEN Truncate(outliers, opts.top_n[1])
             ELSE outliers

\* A call of detect_large_file_outliers, with the total_size detect_outliers
\* hands it.
outliers_call ==
    /\ pc = "large_files"
    /\ large_files' = detect_large_file_outliers(file_infos,
                          SumSeq(SizesOf(file_infos)), options)
    /\ pc' = "large_files_returned"
    /\ UNCHANGED <<detectVars, ret, compare, min_similarity, min_cluster_size,
                   batchVars, mergeVars, again, propVars, mcpVars, taskVars, walk, file_infos, options,
                   hidden_consumers, pattern_groups, report>>

(***************************************************************************)
(* detect_large_file_outliers on sizes of about 2^52 bytes, the rounding   *)
(* of f64 kept.  A size is [units |-> k, bytes |-> b], which is            *)
(* k * 2^52 + b bytes, and an f64 is [units |-> k, eighths |-> r], which   *)
(* is k * 2^52 + r / 8; k is at most 7 and b and r are small, so the       *)
(* binade of a value, and with it the distance of two neighbouring f64     *)
(* values, is known from k and the sign of r.  An f64 has 53 significant   *)
(* bits: neighbours are 1/2 apart below 2^52, 1 apart from 2^52, 2 apart   *)
(* from 2^53 and 4 apart from 2^54.                                        *)
(***************************************************************************)
\* The distance of two neighbouring f64 values at k * 2^52 + r / 8, in
\* eighths.  Of the values below 2^52 only those that need no rounding
\* occur, which the grid of eighths holds.
Ulp(k, r) ==
    LET binade == IF k >= 4 THEN 32 ELSE IF k >= 2 THEN 16 ELSE IF k = 1 THEN 8 ELSE 1
    IN  IF k \in {1, 2, 4} /\ r < 0 THEN binade \div 2 ELSE binade

\* The multiple of g nearest to num / den, the even one of two that are
\* equally near: round to nearest, ties to even.
NearestEven(g, num, den) ==
    LET q == num \div (den * g)
        twice == 2 * (num - q * den * g)
    IN  IF twice < den * g THEN q * g
        ELSE IF twice > den * g THEN (q + 1) * g
        ELSE IF q % 2 = 0 THEN q * g ELSE (q + 1) * g

\* The f64 nearest to k * 2^52 + (num / den) / 8.
RoundF64(k, num, den) ==
    [units |-> k, eighths |-> NearestEven(Ulp(k, num), num, den)]

\* f.size_bytes as f64
AsF64(size) == RoundF64(size.units, 8 * size.bytes, 1)

\* sizes.iter().sum::<f64>(): a fold from the left, each sum rounded.
RECURSIVE SumF64(_, _)
SumF64(acc, sizes) ==
    IF sizes = <<>> THEN acc
    ELSE SumF64(RoundF64(acc.units + Head(sizes).units,
                         acc.eighths + Head(sizes).eighths, 1),
                Tail(sizes))

\* sum / sizes.len() as f64, for sizes of the same number of units.
MeanF64(sizes) ==
    LET sum == SumF64([units |-> 0, eighths |-> 0], sizes)
    IN  RoundF64(sum.units \div Len(sizes), sum.eighths, Len(sizes))

\* size - mean, which is exact for two values this close.
DiffF64(size, mean) == Quot(size.eighths - mean.eighths, 8)

\* f.size_bytes < min_size, on u64.
SizeLess(a, b) == a.units < b.units \/ (a.units = b.units /\ a.bytes < b.bytes)

RECURSIVE InsertLargest(_, _)
InsertLargest(sorted, x) ==
    IF sorted = <<>> THEN <<x>>
    ELSE IF ~SizeLess(Head(sorted).size_bytes, x.size_bytes)
    THEN <<Head(sorted)>> \o InsertLargest(Tail(sorted), x)
    ELSE <<x>> \o sorted

\* sort_by(|a, b| b.size_bytes.cmp(&a.size_bytes)) on such sizes.
RECURSIVE SortLargest(_)
SortLargest(s) ==
    IF s = <<>> THEN <<>>
    ELSE InsertLargest(SortLargest(SubSeq(s, 1, Len(s) - 1)), s[Len(s)])

\* detect_large_file_outliers on files of such sizes, all of the same number
\* of units.  size_mb and percentage_of_total are left out of the records.
detect_huge_file_outliers(fs, opts) ==
    IF fs = <<>> THEN <<>>
    ELSE LET sizes == [k \in 1..Len(fs) |-> AsF64(fs[k].size_bytes)]
             mean == MeanF64(sizes)
             squares == [k \in 1..Len(fs) |->
                            QMul(DiffF64(sizes[k], mean), DiffF64(sizes[k], mean))]
             variance == QDiv(QSum(squares), <<Len(fs), 1>>)
             ScoreOf(k) == IF variance[1] > 0
                           THEN [diff |-> DiffF64(sizes[k], mean), variance |-> variance]
                           ELSE ZeroScore
             kept == SelectSeq([k \in 1..Len(fs) |-> k], LAMBDA k :
                        /\ ~(IsSome(opts.min_size)
                                /\ SizeLess(fs[k].size_bytes, opts.min_size[1]))
                        /\ IsOutlier(ScoreOf(k), opts.std_dev_threshold))
             outliers == SortLargest([x \in 1..Len(kept) |->
                            [path |-> fs[kept[x]].path,
                             size_bytes |-> fs[kept[x]].size_bytes,
                             std_devs_from_mean |-> ScoreOf(kept[x])]])
         IN  IF IsSome(opts.top_n) THEN Truncate(outliers, opts.top_n[1])
             ELSE outliers

\* A call of detect_large_file_outliers on such files.
huge_outliers_call ==
    /\ pc = "huge_files"
    /\ large_files' = detect_huge_file_outliers(file_infos, options)
    /\ pc' = "huge_files_returned"
    /\ UNCHANGED <<detectVars, ret, compare, min_similarity, min_cluster_size,
                   batchVars, mergeVars, again, propVars, mcpVars, taskVars, walk, file_infos,
                   options, hidden_consumers, pattern_groups, report>>

(***************************************************************************)
(* outliers.rs: detect_hidden_consumers and detect_pattern_groups.         *)
(*                                                                         *)
(* A path is a record of its parent directory, a sequence of components,   *)
(* and its file name, a sequence of characters.                            *)
(***************************************************************************)
HIDDEN_CONSUMER_PATTERNS ==
    << <<"node_modules", "Node.js dependencies",
         "Consider using npm prune or clearing unused dependencies">>,
       <<".git", "Git repository data", "Run git gc to clean up unnecessary files">>,
       <<"target", "Rust build artifacts", "Run cargo clean to remove build artifacts">>,
       <<"build", "Build output directory", "Clean build artifacts if not needed">>,
       <<"dist", "Distribution files", "Remove old distribution builds">>,
       <<".venv", "Python virtual environment", "Recreate virtual environment if needed">>,
       <<"__pycache__", "Python cache files", "Safe to delete, will be regenerated">>,
       <<".cache", "Application cache", "Review and clean old cache files">>,
       <<"tmp", "Temporary files", "Clean up old temporary files">>,
       <<"logs", "Log files", "Archive or delete old logs">> >>

\* flatten of a sequence of Options or Vecs.
RECURSIVE Flatten(_)
Flatten(ss) == IF ss = <<>> THEN <<>> ELSE Head(ss) \o Flatten(Tail(ss))

\* dir.file_name().and_then(|n| n.to_str()).unwrap_or("")
DirName(dir) == IF dir = <<>> THEN "" ELSE dir[Len(dir)]

\* dir_contents: the walked paths of each parent directory, in walk order.
DirContents(paths) ==
    [dir \in {paths[k].dir : k \in 1..Len(paths)} |->
        SelectSeq(paths, LAMBDA path : path.dir = dir)]

\* The first entry of HIDDEN_CONSUMER_PATTERNS the directory matches.
MatchingPattern(dir) ==
    LET hits == SelectSeq(HIDDEN_CONSUMER_PATTERNS,
                          LAMBDA entry : DirName(dir) = entry[1]
                                         \/ (dir # <<>> /\ dir[Len(dir)] = entry[1]))
    IN  IF hits = <<>> THEN None ELSE Some(Head(hits))

\* The consumer of a directory with every walked path counted, the ones
\* without a file record too.
ConsumerCountingEveryPath(dir, contents, infos) ==
    LET entry == MatchingPattern(dir)
        total_size == SumSeq(SizesOf(SelectSeq(infos, LAMBDA f : f.path.dir = dir)))
    IN  IF IsSome(entry) /\ total_size > 0
        THEN Some([path |-> dir,
                   pattern_type |-> entry[1][2],
                   total_size_bytes |-> total_size,
                   file_count |-> Len(contents),
                   recommendation |-> entry[1][3]])
        ELSE None

\* The body of the loop over dir_contents: the consumer of one directory.
ConsumerOf(dir, contents, infos) ==
    LET entry == MatchingPattern(dir)
        known == SelectSeq(contents, LAMBDA path :
                     \E k \in 1..Len(infos) : infos[k].path = path)
        info(path) == infos[CHOOSE k \in 1..Len(infos) :
                                /\ infos[k].path = path
                                /\ \A j \in (k + 1)..Len(infos) : infos[j].path # path]
        total_size == SumSeq([k \in 1..Len(known) |-> info(known[k]).size_bytes])
    IN  IF IsSome(entry) /\ total_size > 0
        THEN Some([path |-> dir,
                   pattern_type |-> entry[1][2],
                   total_size_bytes |-> total_size,
                   file_count |-> Len(known),
                   recommendation |-> entry[1][3]])
        ELSE None

\* detect_hidden_consumers: the HashMap dir_contents iterates in an order the
\* program does not control; the sort that follows is stable.
detect_hidden_consumers(paths, infos) ==
    LET dir_contents == DirContents(paths)
    IN  {SortDescending(
             Flatten([k \in DOMAIN order |->
                         ConsumerOf(order[k], dir_contents[order[k]], infos)]),
             "total_size_bytes") :
         order \in KeyOrders(DOMAIN dir_contents)}

Digits == {"0", "1", "2", "3", "4", "5", "6", "7", "8", "9"}
Separators == {"-", "_"}

\* [-_]? at position i: the position after it.
SkipSeparator(name, i) ==
    IF i <= Len(name) /\ name[i] \in Separators THEN i + 1 ELSE i

\* \d{n} at positions a..b.
AllDigits(name, a, b) ==
    /\ b <= Len(name)
    /\ \A k \in a..b : name[k] \in Digits

\* The last position of the longest run of digits that starts at i.
RECURSIVE DigitRunEnd(_, _)
DigitRunEnd(name, i) ==
    IF i <= Len(name) /\ name[i] \in Digits THEN DigitRunEnd(name, i + 1) ELSE i - 1

\* (\..+)?$ after position e: the suffix captured, "" when the group is absent.
SuffixAfter(name, e) ==
    IF e = Len(name) THEN Some(<<>>)
    ELSE IF e < Len(name) /\ name[e + 1] = "." /\ e + 2 <= Len(name)
    THEN Some(SubSeq(name, e + 1, Len(name)))
    ELSE None

\* [-_]?(\d{2,})(\..+)?$ from position i.
NumberedRest(name, i) ==
    LET from == SkipSeparator(name, i)
        to == DigitRunEnd(name, from)
    IN  IF to - from + 1 >= 2 THEN SuffixAfter(name, to) ELSE None

\* [-_]?(\d{4}[-_]?\d{2}[-_]?\d{2})(\..+)?$ from position i.
DatedRest(name, i) ==
    LET year == SkipSeparator(name, i)
        month == SkipSeparator(name, year + 4)
        day == SkipSeparator(name, month + 2)
    IN  IF /\ AllDigits(name, year, year + 3)
           /\ AllDigits(name, month, month + 1)
           /\ AllDigits(name, day, day + 1)
        THEN SuffixAfter(name, day + 1)
        ELSE None

\* ^(.+?) before the rest of the expression: the shortest prefix after which
\* the rest matches, with the suffix captured; rests[e] is the match of the
\* rest from position e + 1.
LazyPrefix(name, rests) ==
    LET ends == {e \in 1..Len(name) : IsSome(rests[e])}
    IN  IF ends = {} THEN None
        ELSE LET e == CHOOSE x \in ends : \A y \in ends : x <= y
             IN  Some(<<SubSeq(name, 1, e), rests[e][1]>>)

detect_numbered_pattern(filename) ==
    LazyPrefix(filename, [e \in 1..Len(filename) |-> NumberedRest(filename, e + 1)])
detect_dated_pattern(filename) ==
    LazyPrefix(filename, [e \in 1..Len(filename) |-> DatedRest(filename, e + 1)])

\* format!("{}*{}", prefix, suffix) for the pattern of the file, if it has one.
PatternOf(file) ==
    LET numbered == detect_numbered_pattern(file.path.name)
        dated == detect_dated_pattern(file.path.name)
    IN  IF IsSome(numbered) THEN Some(numbered[1][1] \o <<"*">> \o numbered[1][2])
        ELSE IF IsSome(dated) THEN Some(dated[1][1] \o <<"*">> \o dated[1][2])
        ELSE None

\* pattern_map: the files of each pattern, in input order.
PatternMap(fs) ==
    [pattern \in {PatternOf(fs[k])[1] : k \in {j \in 1..Len(fs) : IsSome(PatternOf(fs[j]))}} |->
        SelectSeq(fs, LAMBDA file : PatternOf(file) = Some(pattern))]

\* The least number of files that make a pattern group.
MinPatternFiles == 3
\* The most sample_files a pattern group keeps.
MaxSampleFiles == 5

\* The filter and the map over pattern_map.
GroupOf(pattern, members) ==
    IF Len(members) >= MinPatternFiles
    THEN Some([pattern |-> pattern,
               count |-> Len(members),
               total_size_bytes |-> SumSeq(SizesOf(members)),
               sample_files |-> [k \in 1..(IF Len(members) < MaxSampleFiles
                                           THEN Len(members) ELSE MaxSampleFiles) |->
                                    members[k].path]])
    ELSE None

\* detect_pattern_groups: pattern_map is a HashMap too.
detect_pattern_groups(fs) ==
    LET pattern_map == PatternMap(fs)
    IN  {SortDescending(
             Flatten([k \in DOMAIN order |-> GroupOf(order[k], pattern_map[order[k]])]),
             "total_size_bytes") :
         order \in KeyOrders(DOMAIN pattern_map)}

(***************************************************************************)
(* outliers.rs: detect_outliers.  walk is the Result of walk_with_options; *)
(* an entry of the walk carries what the file system answers for the path: *)
(* `metadata` is fs::metadata(path).ok() as the length of the file, and    *)
(* `content` is fs::read(path).ok().and_then(ssdeep::hash(..).ok()).       *)
(***************************************************************************)
\* A closure that keeps a file, when clustering is enabled, only if its
\* content could be hashed.
FileInfoOnlyWhenHashed(entry, opts) ==
    IF entry.metadata = None \/ (opts.enable_clustering /\ entry.content = None)
    THEN None
    ELSE Some([path |-> entry.path,
               size_bytes |-> entry.metadata[1],
               ssdeep_hash |-> IF opts.enable_clustering /\ entry.metadata[1] >= MiB
                               THEN entry.content
                               ELSE None])

\* The closure of filter_map over the walked paths.
FileInfoOf(entry, opts) ==
    IF entry.metadata = None THEN None
    ELSE Some([path |-> entry.path,
               size_bytes |-> entry.metadata[1],
               ssdeep_hash |-> IF opts.enable_clustering /\ entry.metadata[1] >= MiB
                               THEN entry.content
                               ELSE None])

CollectFileInfos(entries, opts) ==
    Flatten([k \in 1..Len(entries) |-> FileInfoOf(entries[k], opts)])

\* large_files_for_clustering
FilesForClustering(infos, opts) ==
    SelectSeq(infos, LAMBDA f :
        /\ IsSome(f.ssdeep_hash)
        /\ f.size_bytes >= (IF IsSome(opts.min_size) THEN opts.min_size[1] ELSE MiB))

OutlierReport(larges, consumers, groups, found, total_size, total_files) ==
    [large_files |-> larges,
     hidden_consumers |-> consumers,
     pattern_groups |-> groups,
     large_file_clusters |-> found,
     total_size_analyzed |-> total_size,
     total_files_analyzed |-> total_files]

OkReport(r) == [kind |-> "Ok", report |-> r, error |-> <<>>]
ErrReport(e) == [kind |-> "Err", report |-> <<>>, error |-> e]

\* Result::unwrap_or_else(|_| vec![])
UnwrapOrEmpty(r) == IF r.kind = "Ok" THEN r.clusters ELSE <<>>

\* detect_outliers, up to the call of detect_large_file_clusters.
detect_outliers ==
    /\ pc = "outliers"
    /\ IF walk.kind = "Err"
       THEN /\ report' = ErrReport(walk.error)
            /\ pc' = "outliers_returned"
            /\ UNCHANGED <<detectVars, ret, min_similarity, min_cluster_size,
                           file_infos, large_files, hidden_consumers, pattern_groups>>
       ELSE IF walk.files = <<>>
       THEN /\ report' = OkReport(OutlierReport(<<>>, <<>>, <<>>, <<>>, 0, 0))
            /\ pc' = "outliers_returned"
            /\ UNCHANGED <<detectVars, ret, min_similarity, min_cluster_size,
                           file_infos, large_files, hidden_consumers, pattern_groups>>
       ELSE LET infos == CollectFileInfos(walk.files, options)
                total_size == SumSeq(SizesOf(infos))
                larges == detect_large_file_outliers(infos, total_size, options)
                paths == [k \in 1..Len(walk.files) |-> walk.files[k].path]
            IN  /\ file_infos' = infos
                /\ large_files' = larges
                /\ \E consumers \in (IF options.check_hidden_consumers
                                     THEN detect_hidden_consumers(paths, infos)
                                     ELSE {<<>>}),
                      groups \in (IF options.check_patterns
                                  THEN detect_pattern_groups(infos)
                                  ELSE {<<>>}) :
                      /\ hidden_consumers' = consumers
                      /\ pattern_groups' = groups
                      /\ IF options.enable_clustering
                         THEN /\ Call(FilesForClustering(infos, options),
                                      "clustering_returned")
                              /\ min_similarity' = options.cluster_similarity_threshold
                              /\ min_cluster_size' = options.min_cluster_size
                              /\ UNCHANGED report
                         ELSE /\ report' = OkReport(OutlierReport(larges, consumers,
                                               groups, <<>>, total_size, Len(infos)))
                              /\ pc' = "outliers_returned"
                              /\ UNCHANGED <<detectVars, ret, min_similarity,
                                             min_cluster_size>>
    /\ UNCHANGED <<compare, batchVars, mergeVars, again, propVars, mcpVars, taskVars, walk, options>>

\* detect_large_file_clusters has returned to detect_outliers, which builds
\* the report.
clustering_return ==
    /\ pc = "clustering_returned"
    /\ report' = OkReport(OutlierReport(large_files, hidden_consumers, pattern_groups,
                              UnwrapOrEmpty(result), SumSeq(SizesOf(file_infos)),
                              Len(file_infos)))
    /\ pc' = "outliers_returned"
    /\ UNCHANGED <<detectVars, ret, compare, min_similarity, min_cluster_size,
                   batchVars, mergeVars,
                   again, propVars, mcpVars, taskVars, walk, file_infos, options, large_files,
                   hidden_consumers, pattern_groups>>

OutliersNext ==
    \/ detect_outliers
    \/ clustering_return
    \/ DetectNext

\* A call of detect_pattern_groups on file_infos.
patterns_call ==
    /\ pc = "patterns"
    /\ \E groups \in detect_pattern_groups(file_infos) : pattern_groups' = groups
    /\ pc' = "patterns_returned"
    /\ UNCHANGED <<detectVars, ret, compare, min_similarity, min_cluster_size,
                   batchVars, mergeVars, again, propVars, mcpVars, taskVars, walk, file_infos, options,
                   large_files, hidden_consumers, report>>

\* A call of detect_hidden_consumers on the walked paths and file_infos.
consumers_call ==
    /\ pc = "consumers"
    /\ \E consumers \in detect_hidden_consumers(
                             [k \in 1..Len(walk.files) |-> walk.files[k].path],
                             file_infos) :
          hidden_consumers' = consumers
    /\ pc' = "consumers_returned"
    /\ UNCHANGED <<detectVars, ret, compare, min_similarity, min_cluster_size,
                   batchVars, mergeVars, again, propVars, mcpVars, taskVars, walk, file_infos, options,
                   large_files, pattern_groups, report>>

\* A call of build_distance_matrix.
matrix_call ==
    /\ pc = "matrix"
    /\ distances' = build_distance_matrix(files)
    /\ pc' = "matrix_built"
    /\ UNCHANGED <<callerVars, files, hashable_files, epsilon, labels, visited,
                   cluster_id, idx, seed_set, cursor, result>>

(***************************************************************************)
(* build_distance_matrix with its parallel tasks: one task for each item   *)
(* of the parallel iterator, finishing in any order.  upper_triangle holds *)
(* the results in the order the tasks finish; rayon's collect puts them in *)
(* the order of the iterator, which is one of these orders.  The loop that *)
(* fills the matrix takes them in the order of the vector; the vector is   *)
(* kept afterwards as the record of what the tasks returned.               *)
(***************************************************************************)
\* The pairs of the first row only.
FirstRowPairs(n) == {<<i, j>> \in (0..(n - 1)) \X (0..(n - 1)) : i = 0 /\ i < j}

\* (0..n).flat_map(|i| (i + 1..n).map(move |j| (i, j)))
TaskPairs(n) == {<<i, j>> \in (0..(n - 1)) \X (0..(n - 1)) : i < j}

\* The closure of map: (i, j, similarity_to_distance(sim)).
PairTask(fs, pair) ==
    [i |-> pair[1],
     j |-> pair[2],
     dist |-> similarity_to_distance(
                  calculate_similarity_safe(fs[pair[1] + 1], fs[pair[2] + 1]))]

\* Array2::zeros((n, n))
Zeros(n) == [i \in 0..(n - 1) |-> [j \in 0..(n - 1) |-> 0]]

\* for (i, j, dist) in upper_triangle { .. }
RECURSIVE FillSymmetric(_, _)
FillSymmetric(matrix, triples) ==
    IF triples = <<>> THEN matrix
    ELSE LET t == Head(triples)
             upper == [matrix EXCEPT ![t.i][t.j] = t.dist]
         IN  FillSymmetric([upper EXCEPT ![t.j][t.i] = t.dist], Tail(triples))

Evaluated == {<<upper_triangle[k].i, upper_triangle[k].j>> : k \in 1..Len(upper_triangle)}

\* One task finishes.
pair_task ==
    /\ pc = "par_matrix"
    /\ \E pair \in TaskPairs(Len(files)) \ Evaluated :
          upper_triangle' = Append(upper_triangle, PairTask(files, pair))
    /\ UNCHANGED <<pc, detectVars, ret, compare, min_similarity, min_cluster_size,
                   batchVars, mergeVars, outlierVars, again, propVars, mcpVars>>

\* collect() has every result: the matrix is filled and returned.
fill_matrix ==
    /\ pc = "par_matrix"
    /\ TaskPairs(Len(files)) \subseteq Evaluated
    /\ distances' = FillSymmetric(Zeros(Len(files)), upper_triangle)
    /\ pc' = "par_matrix_built"
    /\ UNCHANGED <<callerVars, files, hashable_files, epsilon, labels, visited,
                   cluster_id, idx, seed_set, cursor, result>>

ParallelNext ==
    \/ pair_task
    \/ fill_matrix

(***************************************************************************)
(* A call of detect_large_file_clusters.                                   *)
(***************************************************************************)
FileLists(n) ==
    {[p \in 1..n |-> NewFile(p, h[p])] :
        h \in [1..n -> {None} \cup {Some(PlainHash(q)) : q \in 1..n}]}

WellFormedFiles(fs) ==
    \A p \in 1..Len(fs) :
        IsSome(fs[p].ssdeep_hash) => fs[p].ssdeep_hash[1].rest = p

\* No call of detect_clusters_batched or merge_overlapping_clusters.
\* The property test and the MCP server before they run.
NoConversion ==
    /\ s1 = 0
    /\ s2 = 0
    /\ d1 = None
    /\ d2 = None
\* McpServer::run has not been called.
NoServer ==
    /\ stdin = <<>>
    /\ consumed = 0
    /\ stdout = <<>>
    /\ run_result = None

\* build_distance_matrix has started no task.
NoTasks == upper_triangle = <<>>

NoRequest ==
    /\ request = None
    /\ response = None
NoBatch ==
    /\ batch_files = <<>>
    /\ batch_size = 0
    /\ lsh_buckets = <<>>
    /\ bucket = 0
    /\ all_clusters = <<>>
    /\ batched_result = Pending
NoMerge ==
    /\ clusters = <<>>
    /\ merged = <<>>
\* The locals of detect_outliers before it runs.
NoReport ==
    /\ large_files = <<>>
    /\ hidden_consumers = <<>>
    /\ pattern_groups = <<>>
    /\ report = [kind |-> "Pending", report |-> <<>>, error |-> <<>>]
NoOutliers ==
    /\ walk = <<>>
    /\ file_infos = <<>>
    /\ options = <<>>
    /\ NoReport

\* The locals of detect_large_file_clusters before it runs.
Idle ==
    /\ hashable_files = <<>>
    /\ distances = <<>>
    /\ epsilon = 0
    /\ labels = <<>>
    /\ visited = <<>>
    /\ cluster_id = 0
    /\ idx = 0
    /\ seed_set = <<>>
    /\ cursor = 0
    /\ result = Pending

Init ==
    /\ ret = "returned"
    /\ again = Pending
    /\ NoConversion
    /\ NoRequest
    /\ NoServer
    /\ NoTasks
    /\ pc = "detect"
    /\ \E n \in 0..MaxFiles :
          files \in {fs \in FileLists(n) : WellFormedFiles(fs)}
    /\ compare \in [HashPairs(files) -> {Some(s) : s \in Scores}]
    /\ min_similarity \in MinSimilarityValues
    /\ min_cluster_size \in 1..MaxMinClusterSize
    /\ Idle
    /\ NoBatch
    /\ NoMerge
    /\ NoOutliers

Next == DetectNext

Spec == Init /\ [][Next]_vars

(***************************************************************************)
(* A call of detect_large_file_clusters on exactly WideFiles hashed files  *)
(* and a valid min_similarity.                                             *)
(***************************************************************************)
WideFiles == 5

InitWide ==
    /\ ret = "returned"
    /\ again = Pending
    /\ NoConversion
    /\ NoRequest
    /\ NoServer
    /\ NoTasks
    /\ pc = "detect"
    /\ files = [p \in 1..WideFiles |-> NewFile(p, Some(PlainHash(p)))]
    /\ compare \in [HashPairs(files) -> {Some(s) : s \in Scores}]
    /\ min_similarity \in {v \in MinSimilarityValues : ValidSimilarity(v)}
    /\ min_cluster_size \in 1..WideFiles
    /\ Idle
    /\ NoBatch
    /\ NoMerge
    /\ NoOutliers

SpecWide == InitWide /\ [][Next]_vars

(***************************************************************************)
(* A call of build_distance_matrix, on files with and without a hash and   *)
(* with comparisons that fail.                                             *)
(***************************************************************************)
InitMatrix ==
    /\ ret = "returned"
    /\ again = Pending
    /\ NoConversion
    /\ NoRequest
    /\ NoServer
    /\ NoTasks
    /\ pc = "matrix"
    /\ \E n \in 0..MaxFiles :
          files \in {fs \in FileLists(n) : WellFormedFiles(fs)}
    /\ compare \in [HashPairs(files) -> {None} \cup {Some(s) : s \in Scores}]
    /\ min_similarity = 50
    /\ min_cluster_size = 1
    /\ Idle
    /\ NoBatch
    /\ NoMerge
    /\ NoOutliers

SpecMatrix == InitMatrix /\ [][matrix_call]_vars

(***************************************************************************)
(* A call of build_distance_matrix with its tasks, on the same files.      *)
(***************************************************************************)
MaxTaskFiles == 3

InitTasks ==
    /\ ret = "returned"
    /\ again = Pending
    /\ NoConversion
    /\ NoRequest
    /\ NoServer
    /\ NoTasks
    /\ pc = "par_matrix"
    /\ \E n \in 0..MaxTaskFiles :
          files \in {fs \in FileLists(n) : WellFormedFiles(fs)}
    /\ compare \in [HashPairs(files) -> {None} \cup {Some(s) : s \in Scores}]
    /\ min_similarity = 50
    /\ min_cluster_size = 1
    /\ Idle
    /\ NoBatch
    /\ NoMerge
    /\ NoOutliers

SpecTasks == InitTasks /\ [][ParallelNext]_vars

(***************************************************************************)
(* A call of merge_overlapping_clusters, on clusters as aggregate_clusters *)
(* builds them (files in ascending order) whose total_size is the sum of   *)
(* the sizes or a stale value.                                             *)
(***************************************************************************)
MaxClusters == 3
MaxPaths == 3

RECURSIVE Ascending(_)
Ascending(S) ==
    IF S = {} THEN <<>>
    ELSE LET m == CHOOSE x \in S : \A y \in S : x <= y
         IN  <<m>> \o Ascending(S \ {m})

ClusterOf(paths, stale) ==
    LET fs == [k \in 1..Cardinality(paths) |->
                  NewFile(Ascending(paths)[k], Some(PlainHash(Ascending(paths)[k])))]
    IN  [cluster_id |-> 0,
         files |-> fs,
         total_size |-> IF stale THEN 0 ELSE SumSeq(SizesOf(fs)),
         avg_similarity |-> <<100, 1>>,
         density |-> <<1, 1>>]

InputClusters ==
    {ClusterOf(paths, stale) :
        paths \in (SUBSET (1..MaxPaths)) \ {{}}, stale \in BOOLEAN}

InitMerge ==
    /\ ret = "returned"
    /\ again = Pending
    /\ NoConversion
    /\ NoRequest
    /\ NoServer
    /\ NoTasks
    /\ pc = "merge"
    /\ files = <<>>
    /\ compare = <<>>
    /\ min_similarity = 50
    /\ min_cluster_size = 1
    /\ Idle
    /\ NoBatch
    /\ \E n \in 0..MaxClusters : clusters \in [1..n -> InputClusters]
    /\ merged = <<>>
    /\ NoOutliers

SpecMerge == InitMerge /\ [][merge_call]_vars

(***************************************************************************)
(* A call of detect_clusters_batched.                                      *)
(***************************************************************************)
MaxBatchFiles == 3

\* Hashes of two or three fields whose first chunk starts in one of two ways.
BatchHashes(p) ==
    {[fields |-> f, block |-> 3, chunk |-> c, rest |-> p] :
        f \in {2, 3}, c \in {1, 2}}

BatchFileLists(n) ==
    {[p \in 1..n |-> NewFile(p, h[p])] :
        h \in [1..n -> {None} \cup UNION {{Some(x) : x \in BatchHashes(q)} : q \in 1..n}]}

InitBatched ==
    /\ ret = "returned"
    /\ again = Pending
    /\ NoConversion
    /\ NoRequest
    /\ NoServer
    /\ NoTasks
    /\ pc = "batched"
    /\ \E n \in 0..MaxBatchFiles :
          batch_files \in {fs \in BatchFileLists(n) : WellFormedFiles(fs)}
    /\ compare \in [HashPairs(batch_files) -> {Some(s) : s \in Scores}]
    /\ min_similarity \in {49, 50}
    /\ min_cluster_size \in 1..MaxBatchFiles
    /\ batch_size \in 0..MaxBatchFiles
    /\ files = <<>>
    /\ Idle
    /\ lsh_buckets = <<>>
    /\ bucket = 0
    /\ all_clusters = <<>>
    /\ batched_result = Pending
    /\ NoMerge
    /\ NoOutliers

SpecBatched == InitBatched /\ [][BatchedNext]_vars

(***************************************************************************)
(* A call of detect_clusters_batched on files with paths of their own,     *)
(* whose hashes differ in the block size, in the first chunk or only in    *)
(* what follows it, or have two fields only, or are missing.               *)
(***************************************************************************)
BucketHashes(p) ==
    {[fields |-> f, block |-> b, chunk |-> c, rest |-> p] :
        f \in {2, 3}, b \in {3, 6}, c \in {1, 2}}

BucketFileLists(n) ==
    {[p \in 1..n |-> NewFile(p, h[p])] :
        h \in [1..n -> {None} \cup UNION {{Some(x) : x \in BucketHashes(q)} : q \in 1..n}]}

InitBuckets ==
    /\ ret = "returned"
    /\ again = Pending
    /\ NoConversion
    /\ NoRequest
    /\ NoServer
    /\ NoTasks
    /\ pc = "batched"
    /\ \E n \in 0..MaxBatchFiles :
          batch_files \in {fs \in BucketFileLists(n) : WellFormedFiles(fs)}
    /\ compare \in [HashPairs(batch_files) -> {Some(s) : s \in Scores}]
    /\ min_similarity = 50
    /\ min_cluster_size \in 1..2
    /\ batch_size \in {0, MaxBatchFiles}
    /\ files = <<>>
    /\ Idle
    /\ lsh_buckets = <<>>
    /\ bucket = 0
    /\ all_clusters = <<>>
    /\ batched_result = Pending
    /\ NoMerge
    /\ NoOutliers

SpecBuckets == InitBuckets /\ [][BatchedNext]_vars

(***************************************************************************)
(* A call of detect_large_file_outliers: a few files of small sizes, and   *)
(* the scenario of nine files of one size and one file of a hundred times  *)
(* that size.                                                              *)
(***************************************************************************)
MaxStatFiles == 3
SizeValues == {0, 1, 2, 9}
Thresholds == {<<-1, 1>>, <<0, 1>>, <<1, 2>>, <<1, 1>>, <<3, 2>>}

SizedFile(p, size) == [path |-> p, size_bytes |-> size, ssdeep_hash |-> None]

\* Nine files of 10000 bytes and one of 1000000 bytes, the sizes counted in
\* units of 10000 bytes: a z-score does not depend on the unit.
NineSmallOneLarge ==
    [p \in 1..10 |-> IF p <= 9 THEN SizedFile(p, 1) ELSE SizedFile(p, 100)]

StatOptions ==
    [min_size : {None, Some(2)},
     top_n : {None, Some(0), Some(1), Some(20)},
     std_dev_threshold : Thresholds,
     check_hidden_consumers : {FALSE},
     include_empty_dirs : {FALSE},
     check_patterns : {FALSE},
     enable_clustering : {FALSE},
     cluster_similarity_threshold : {70},
     min_cluster_size : {2}]

InitStats ==
    /\ ret = "returned"
    /\ again = Pending
    /\ NoConversion
    /\ NoRequest
    /\ NoServer
    /\ NoTasks
    /\ pc = "large_files"
    /\ files = <<>>
    /\ compare = <<>>
    /\ min_similarity = 50
    /\ min_cluster_size = 1
    /\ Idle
    /\ NoBatch
    /\ NoMerge
    /\ \/ \E n \in 0..MaxStatFiles :
             file_infos \in {[p \in 1..n |-> SizedFile(p, size[p])] :
                                size \in [1..n -> SizeValues]}
       \/ file_infos = NineSmallOneLarge
    /\ options \in StatOptions
    /\ walk = <<>>
    /\ NoReport

SpecStats == InitStats /\ [][outliers_call]_vars

(***************************************************************************)
(* A call of detect_large_file_outliers on files that all have the same    *)
(* size: no bytes at all, or a few bytes less or more than 2^52 bytes.     *)
(***************************************************************************)
EqualSizes ==
    {[units |-> 0, bytes |-> 0]} \cup {[units |-> 1, bytes |-> b] : b \in (-3)..3}

EqualSizeThresholds == {<<0, 1>>, <<1, 2>>, <<1, 1>>, <<2, 1>>}

InitEqualSizes ==
    /\ ret = "returned"
    /\ again = Pending
    /\ NoConversion
    /\ NoRequest
    /\ NoServer
    /\ NoTasks
    /\ pc = "huge_files"
    /\ files = <<>>
    /\ compare = <<>>
    /\ min_similarity = 50
    /\ min_cluster_size = 1
    /\ Idle
    /\ NoBatch
    /\ NoMerge
    /\ \E n \in 0..MaxStatFiles, size \in EqualSizes :
          file_infos = [p \in 1..n |-> SizedFile(p, size)]
    /\ options \in [min_size : {None, Some([units |-> 1, bytes |-> 0])},
                    top_n : {None, Some(1), Some(20)},
                    std_dev_threshold : EqualSizeThresholds,
                    check_hidden_consumers : {FALSE},
                    include_empty_dirs : {FALSE},
                    check_patterns : {FALSE},
                    enable_clustering : {FALSE},
                    cluster_similarity_threshold : {70},
                    min_cluster_size : {2}]
    /\ walk = <<>>
    /\ NoReport

SpecEqualSizes == InitEqualSizes /\ [][huge_outliers_call]_vars

(***************************************************************************)
(* A call of detect_outliers on a walk of a few files: in known and other  *)
(* directories, with numbered and plain names, below and above the size    *)
(* from which a file is hashed, some with metadata or content that cannot  *)
(* be read; or on a walk that fails.                                       *)
(***************************************************************************)
MaxWalked == 3

DigitOf == <<"1", "2", "3", "4", "5", "6", "7", "8", "9">>
NumberedName(k) == <<"b", "-", "0", DigitOf[k], ".", "t">>
PlainName(k) == <<"n", DigitOf[k]>>

\* Where the files are: all in one plain directory, all in node_modules, or
\* the first in tmp and the others in node_modules.
Layouts(n) ==
    {[k \in 1..n |-> <<"proj">>],
     [k \in 1..n |-> <<"proj", "node_modules">>],
     [k \in 1..n |-> IF k = 1 THEN <<"proj", "tmp">> ELSE <<"proj", "node_modules">>]}

\* How the files are named: all numbered, none, or all but the first.
NameSchemes(n) ==
    {[k \in 1..n |-> NumberedName(k)],
     [k \in 1..n |-> PlainName(k)],
     [k \in 1..n |-> IF k = 1 THEN PlainName(k) ELSE NumberedName(k)]}

Walks(n) ==
    {[k \in 1..n |-> [path |-> [dir |-> dirs[k], name |-> names[k]],
                      metadata |-> metadata[k],
                      content |-> content[k]]] :
        dirs \in Layouts(n), names \in NameSchemes(n),
        metadata \in {m \in [1..n -> {None} \cup {Some(x) : x \in 1..(MiB + n)}] :
                         \A k \in 1..n : m[k] \in {None, Some(1), Some(MiB + k)}},
        content \in {c \in [1..n -> {None} \cup {Some(PlainHash(k)) : k \in 1..n}] :
                         \A k \in 1..n : c[k] \in {None, Some(PlainHash(k))}}}

WalkOk(entries) == [kind |-> "Ok", files |-> entries, error |-> <<>>]
WalkErr == [kind |-> "Err", files |-> <<>>, error |-> "Io"]

ReportOptions ==
    {[min_size |-> min_size,
      top_n |-> Some(20),
      std_dev_threshold |-> <<1, 1>>,
      check_hidden_consumers |-> hidden,
      include_empty_dirs |-> FALSE,
      check_patterns |-> patterns,
      enable_clustering |-> clustering[1],
      cluster_similarity_threshold |-> clustering[2],
      min_cluster_size |-> 2] :
        min_size \in {None, Some(MiB + 2)},
        hidden \in BOOLEAN, patterns \in BOOLEAN,
        clustering \in {<<FALSE, 70>>, <<TRUE, 49>>, <<TRUE, 70>>, <<TRUE, 101>>}}

InitOutliers ==
    /\ ret = "returned"
    /\ again = Pending
    /\ NoConversion
    /\ NoRequest
    /\ NoServer
    /\ NoTasks
    /\ pc = "outliers"
    /\ files = <<>>
    /\ min_similarity = 50
    /\ min_cluster_size = 1
    /\ Idle
    /\ NoBatch
    /\ NoMerge
    /\ options \in ReportOptions
    /\ \/ walk = WalkErr
       \/ \E n \in 0..MaxWalked : walk \in {WalkOk(entries) : entries \in Walks(n)}
    /\ compare \in [HashPairs(FilesForClustering(CollectFileInfos(walk.files, options),
                                                 options))
                       -> {Some(s) : s \in Scores}]
    /\ file_infos = <<>>
    /\ NoReport

SpecOutliers == InitOutliers /\ [][OutliersNext]_vars

(***************************************************************************)
(* A call of simple_dbscan on a symmetric distance matrix with a zero      *)
(* diagonal, as test_dbscan_implementation builds it.                      *)
(***************************************************************************)
MaxPoints == 4
NearDistance == 10
FarDistance == 90
EpsilonValues == {0, NearDistance, 20}
MaxMinPoints == 3

DistanceMatrices(n) ==
    {[i \in 0..(n - 1) |-> [j \in 0..(n - 1) |->
          IF i = j THEN 0 ELSE IF i < j THEN upper[<<i, j>>] ELSE upper[<<j, i>>]]] :
        upper \in [{ij \in (0..(n - 1)) \X (0..(n - 1)) : ij[1] < ij[2]}
                      -> {NearDistance, FarDistance}]}

\* Points 0 and 1 are near, points 2 and 3 are near, the groups are far apart.
TwoGroups ==
    [i \in 0..3 |-> [j \in 0..3 |->
        IF i = j THEN 0
        ELSE IF (i \div 2) = (j \div 2) THEN NearDistance ELSE FarDistance]]

InitDbscan ==
    /\ ret = "returned"
    /\ again = Pending
    /\ NoConversion
    /\ NoRequest
    /\ NoServer
    /\ NoTasks
    /\ pc = "simple_dbscan"
    /\ files = <<>>
    /\ compare = <<>>
    /\ min_similarity = 50
    /\ min_cluster_size \in 1..MaxMinPoints
    /\ hashable_files = <<>>
    /\ \E n \in 0..MaxPoints : distances \in DistanceMatrices(n)
    /\ epsilon \in EpsilonValues
    /\ labels = <<>>
    /\ visited = <<>>
    /\ cluster_id = 0
    /\ idx = 0
    /\ seed_set = <<>>
    /\ cursor = 0
    /\ result = Pending
    /\ NoBatch
    /\ NoMerge
    /\ NoOutliers

SpecDbscan == InitDbscan /\ [][DbscanNext]_vars

(***************************************************************************)
(* A call of simple_dbscan as in SpecDbscan, or on five points of which    *)
(* points 0 and 4 are far from one another and near to points 1, 2 and 3,  *)
(* with min_points 4: points 0 and 4 are core points of two clusters that  *)
(* both reach points 1, 2 and 3.                                           *)
(***************************************************************************)
SharedBorders ==
    {[i \in 0..4 |-> [j \in 0..4 |->
          IF i = j THEN 0
          ELSE IF {i, j} = {0, 4} THEN FarDistance
          ELSE IF i \in {0, 4} \/ j \in {0, 4} THEN NearDistance
          ELSE IF i < j THEN inner[<<i, j>>] ELSE inner[<<j, i>>]]] :
        inner \in [{<<1, 2>>, <<1, 3>>, <<2, 3>>} -> {NearDistance, FarDistance}]}

InitShared ==
    /\ ret = "returned"
    /\ again = Pending
    /\ NoConversion
    /\ NoRequest
    /\ NoServer
    /\ NoTasks
    /\ pc = "simple_dbscan"
    /\ files = <<>>
    /\ compare = <<>>
    /\ min_similarity = 50
    /\ \/ /\ min_cluster_size \in 1..MaxMinPoints
          /\ \E n \in 0..MaxPoints : distances \in DistanceMatrices(n)
       \/ /\ min_cluster_size = 4
          /\ distances \in SharedBorders
    /\ hashable_files = <<>>
    /\ epsilon \in EpsilonValues
    /\ labels = <<>>
    /\ visited = <<>>
    /\ cluster_id = 0
    /\ idx = 0
    /\ seed_set = <<>>
    /\ cursor = 0
    /\ result = Pending
    /\ NoBatch
    /\ NoMerge
    /\ NoOutliers

SpecShared == InitShared /\ [][DbscanNext]_vars

\* The run of simple_dbscan is sequential code: a step that can be taken is
\* taken.
SpecSharedFair == SpecShared /\ WF_vars(DbscanNext)

(***************************************************************************)
(* A call of aggregate_clusters on any labels: label ids with a gap, files *)
(* without a label, distances below, on and above the cut of the density.  *)
(***************************************************************************)
MaxLabelled == 3
LabelValues == {None, Some(0), Some(2)}
AggregateDistances == {NearDistance, DensityCut, FarDistance}

InitAggregate ==
    /\ ret = "returned"
    /\ again = Pending
    /\ NoConversion
    /\ NoRequest
    /\ NoServer
    /\ NoTasks
    /\ pc = "aggregate"
    /\ files = <<>>
    /\ compare = <<>>
    /\ min_similarity = 50
    /\ min_cluster_size = 1
    /\ \E n \in 0..MaxLabelled :
          /\ hashable_files = [p \in 1..n |-> NewFile(p, Some(PlainHash(p)))]
          /\ labels \in [0..(n - 1) -> LabelValues]
          /\ distances \in
                {[i \in 0..(n - 1) |-> [j \in 0..(n - 1) |->
                     IF i = j THEN 0 ELSE IF i < j THEN upper[<<i, j>>] ELSE upper[<<j, i>>]]] :
                   upper \in [{ij \in (0..(n - 1)) \X (0..(n - 1)) : ij[1] < ij[2]}
                                 -> AggregateDistances]}
    /\ epsilon = 0
    /\ visited = <<>>
    /\ cluster_id = 0
    /\ idx = 0
    /\ seed_set = <<>>
    /\ cursor = 0
    /\ result = Pending
    /\ NoBatch
    /\ NoMerge
    /\ NoOutliers

SpecAggregate == InitAggregate /\ [][aggregate_call]_vars

\* Two calls of aggregate_clusters in a row on the same arguments.
SpecAggregateTwice == InitAggregate /\ [][AggregateTwiceNext]_vars

(***************************************************************************)
(* A call of detect_pattern_groups on files picked from a pool of names:   *)
(* the series backup-000.tar, backup-001.tar, .. of the property test, a   *)
(* series without separator or extension, a name no expression matches,    *)
(* and names that hold a `*`, which a file name may.                       *)
(***************************************************************************)
MaxSeries == 6

BackupName(k) == <<"b", "a", "c", "k", "u", "p", "-", "0", "0">> \o <<DigitOf[k]>> \o <<".", "t", "a", "r">>
LogName(k) == <<"l", "o", "g", "_", "1">> \o <<DigitOf[k]>>

NamePool ==
    [k \in 1..MaxSeries |-> BackupName(k)]
        \o <<LogName(1), LogName(2), LogName(3)>>
        \o <<<<"a", "0", "1", ".", "b", "*", ".", "c">>, <<"a", "0", "2", ".", "b", "*", ".", "c">>, <<"a", "*", ".", "b", "0", "1", ".", "c">>>>
        \o <<PlainName(1)>>

\* The sizes of the files of the pool: all 0, all 1, or growing along it.
SizeSchemes == {[k \in 1..Len(NamePool) |-> 0],
                [k \in 1..Len(NamePool) |-> 1],
                [k \in 1..Len(NamePool) |-> k]}

PooledFiles(picked, sizes) ==
    LET order == Ascending(picked)
    IN  [k \in 1..Len(order) |->
            [path |-> [dir |-> <<"proj">>, name |-> NamePool[order[k]]],
             size_bytes |-> sizes[order[k]],
             ssdeep_hash |-> None]]

InitPatterns ==
    /\ ret = "returned"
    /\ again = Pending
    /\ NoConversion
    /\ NoRequest
    /\ NoServer
    /\ NoTasks
    /\ pc = "patterns"
    /\ files = <<>>
    /\ compare = <<>>
    /\ min_similarity = 50
    /\ min_cluster_size = 1
    /\ Idle
    /\ NoBatch
    /\ NoMerge
    /\ walk = <<>>
    /\ options = <<>>
    /\ NoReport
    /\ file_infos \in {PooledFiles(picked, sizes) :
                          picked \in SUBSET (1..Len(NamePool)), sizes \in SizeSchemes}

SpecPatterns == InitPatterns /\ [][patterns_call]_vars

(***************************************************************************)
(* A call of detect_hidden_consumers as detect_outliers makes it: on the   *)
(* paths of a walk and the records of those whose metadata could be read.  *)
(* The directories are in and out of the table, at the top and nested.     *)
(***************************************************************************)
MaxDirFiles == 3

DirPool ==
    {<<"proj">>,
     <<"proj", "node_modules">>,
     <<"proj", "node_modules", "pkg">>,
     <<"proj", "tmp">>,
     <<"tmp">>}

LengthValues == {None, Some(0), Some(1), Some(2)}

DirWalks(n) ==
    {[k \in 1..n |-> [path |-> [dir |-> dirs[k], name |-> PlainName(k)],
                      metadata |-> metadata[k],
                      content |-> None]] :
        dirs \in [1..n -> DirPool], metadata \in [1..n -> LengthValues]}

\* OutlierOptions::default(): no clustering, so no file is hashed.
DefaultOptions ==
    [min_size |-> None,
     top_n |-> Some(20),
     std_dev_threshold |-> <<2, 1>>,
     check_hidden_consumers |-> TRUE,
     include_empty_dirs |-> FALSE,
     check_patterns |-> TRUE,
     enable_clustering |-> FALSE,
     cluster_similarity_threshold |-> 70,
     min_cluster_size |-> 2]

InitConsumers ==
    /\ ret = "returned"
    /\ again = Pending
    /\ NoConversion
    /\ NoRequest
    /\ NoServer
    /\ NoTasks
    /\ pc = "consumers"
    /\ files = <<>>
    /\ compare = <<>>
    /\ min_similarity = 50
    /\ min_cluster_size = 1
    /\ Idle
    /\ NoBatch
    /\ NoMerge
    /\ options = DefaultOptions
    /\ \E n \in 0..MaxDirFiles : walk \in {WalkOk(entries) : entries \in DirWalks(n)}
    /\ file_infos = CollectFileInfos(walk.files, options)
    /\ NoReport

SpecConsumers == InitConsumers /\ [][consumers_call]_vars

(***************************************************************************)
(* prop_similarity_distance_monotonic: two similarities drawn from         *)
(* 0..=100u8 are converted by similarity_to_distance.                      *)
(***************************************************************************)
MaxSimilarity == 100

\* let d1 = similarity_to_distance(s1); let d2 = similarity_to_distance(s2);
distance_call ==
    /\ pc = "convert"
    /\ d1' = Some(similarity_to_distance(s1))
    /\ d2' = Some(similarity_to_distance(s2))
    /\ pc' = "converted"
    /\ UNCHANGED <<detectVars, ret, compare, min_similarity, min_cluster_size,
                   batchVars, mergeVars, outlierVars, again, s1, s2, mcpVars, taskVars>>

InitDistance ==
    /\ ret = "returned"
    /\ again = Pending
    /\ pc = "convert"
    /\ files = <<>>
    /\ compare = <<>>
    /\ min_similarity = 50
    /\ min_cluster_size = 1
    /\ Idle
    /\ NoBatch
    /\ NoMerge
    /\ NoOutliers
    /\ s1 \in 0..MaxSimilarity
    /\ s2 \in 0..MaxSimilarity
    /\ d1 = None
    /\ d2 = None
    /\ NoRequest
    /\ NoServer
    /\ NoTasks

SpecDistance == InitDistance /\ [][distance_call]_vars

(***************************************************************************)
(* models/mcp.rs and mcp_server: the MCP server.  A serde_json::Value is   *)
(* the record of its type and its content; the content of an object is a   *)
(* record over the keys the model uses, each an Option (None: the object   *)
(* has no such key).  The text of a message is kept up to the part that    *)
(* format! fills in.  What a tool does to the file system is not modelled: *)
(* a tool whose arguments parse either succeeds or fails with -32603.      *)
(***************************************************************************)
JNull == [type |-> "null", value |-> <<>>]
JNumber(n) == [type |-> "number", value |-> n]
JString(str) == [type |-> "string", value |-> str]
JArray(items) == [type |-> "array", value |-> items]
JObject(fields) == [type |-> "object", value |-> fields]

EmptyObject ==
    [name |-> None, arguments |-> None, invalid |-> None, path |-> None,
     pattern_type |-> None, min_similarity |-> None]

\* An McpResponse::error that drops the id of the request.
ErrorWithNullId(id, code, message) ==
    [jsonrpc |-> "2.0",
     id |-> JNull,
     result |-> None,
     error |-> Some([code |-> code, message |-> message, data |-> None])]

McpResponse_success(id, value) ==
    [jsonrpc |-> "2.0", id |-> id, result |-> Some(value), error |-> None]

McpResponse_error(id, code, message) ==
    [jsonrpc |-> "2.0",
     id |-> id,
     result |-> None,
     error |-> Some([code |-> code, message |-> message, data |-> None])]

\* The json! value a handler answers with, named by the handler.
ResultOf(handler) == JObject([EmptyObject EXCEPT !.name = Some(JString(handler))])

handle_initialize(req) == McpResponse_success(req.id, ResultOf("initialize"))

handle_tools_list(req) == McpResponse_success(req.id, ResultOf("tools/list"))

\* serde_json::from_value::<ToolCallParams>: a struct is read from an object
\* by its keys, keys it does not know being skipped, or from an array by
\* position; `name` must be a string, `arguments` may be any value but must
\* be there.
ToolCallParams(p) ==
    IF p.type = "object"
    THEN IF /\ p.value.name # None
            /\ p.value.name[1].type = "string"
            /\ p.value.arguments # None
         THEN Some([name |-> p.value.name[1].value, arguments |-> p.value.arguments[1]])
         ELSE None
    ELSE IF p.type = "array"
    THEN IF Len(p.value) = 2 /\ p.value[1].type = "string"
         THEN Some([name |-> p.value[1].value, arguments |-> p.value[2]])
         ELSE None
    ELSE None

\* Ok(params) is [kind |-> "Ok", params]; Err(response) is [kind |-> "Err", response].
parse_tool_call_params(params, request_id) ==
    IF params = None
    THEN [kind |-> "Err",
          response |-> McpResponse_error(request_id, -32602, "Invalid params: missing")]
    ELSE IF ToolCallParams(params[1]) # None
    THEN [kind |-> "Ok", params |-> ToolCallParams(params[1])[1]]
    ELSE [kind |-> "Err",
          response |-> McpResponse_error(request_id, -32602, "Invalid params")]

\* serde_json::from_value::<DedupeArgs> and the like: `path` is the one
\* field without a default, and a field that is there must have its type.
ArgsParse(arguments) ==
    /\ arguments.type = "object"
    /\ arguments.value.path # None
    /\ arguments.value.path[1].type = "string"
    /\ arguments.value.pattern_type # None =>
          arguments.value.pattern_type[1].type = "string"

\* create_pattern(&args.pattern, &args.pattern_type).is_ok()
create_pattern(arguments) ==
    \/ arguments.value.pattern_type = None
    \/ arguments.value.pattern_type[1].value \in {"literal", "", "glob", "regex"}

\* handle_dedupe_tool, handle_search_tool, handle_count_tool: the responses
\* the tool may give.
PatternTool(tool, id, arguments) ==
    IF ~ArgsParse(arguments)
    THEN {McpResponse_error(id, -32602, "Invalid arguments")}
    ELSE IF ~create_pattern(arguments)
    THEN {McpResponse_error(id, -32602, "Invalid pattern")}
    ELSE {McpResponse_success(id, ResultOf(tool)),
          McpResponse_error(id, -32603, "failed")}

handle_outliers_tool(id, arguments) ==
    IF ~(/\ arguments.type = "object"
         /\ arguments.value.path # None
         /\ arguments.value.path[1].type = "string")
    THEN {McpResponse_error(id, -32602, "Invalid arguments")}
    ELSE {McpResponse_success(id, ResultOf("outliers")),
          McpResponse_error(id, -32603, "failed")}

\* Value::as_u64: the number, if the value is a non-negative integer.
as_u64(v) == IF v.type = "number" /\ v.value >= 0 THEN Some(v.value) ELSE None

\* n as u8: the low 8 bits.
AsU8(n) == n % 256

\* arguments["min_similarity"].as_u64().unwrap_or(70) as u8; indexing a value
\* that is no object, or by a key it does not have, gives Null.
MinSimilarityArgument(arguments) ==
    LET given == IF arguments.type = "object" /\ IsSome(arguments.value.min_similarity)
                 THEN as_u64(arguments.value.min_similarity[1])
                 ELSE None
    IN  AsU8(IF IsSome(given) THEN given[1] ELSE 70)

\* Every argument has a default: arguments["path"].as_str().unwrap_or(".").
\* The walk may fail; detect_large_file_clusters fails on a min_similarity
\* outside 50..=100 and may fail on the files it is given.
handle_analyze_clusters_tool(id, arguments) ==
    IF ValidSimilarity(MinSimilarityArgument(arguments))
    THEN {McpResponse_success(id, ResultOf("analyze_file_clusters")),
          McpResponse_error(id, -32603, "failed")}
    ELSE {McpResponse_error(id, -32603, "failed")}

handle_tool_call(req) ==
    LET parsed == parse_tool_call_params(req.params, req.id)
    IN  IF parsed.kind = "Err" THEN {parsed.response}
        ELSE LET tool_params == parsed.params
             IN  IF tool_params.name \in {"dedupe", "search", "count"}
                 THEN PatternTool(tool_params.name, req.id, tool_params.arguments)
                 ELSE IF tool_params.name = "outliers"
                 THEN handle_outliers_tool(req.id, tool_params.arguments)
                 ELSE IF tool_params.name = "analyze_file_clusters"
                 THEN handle_analyze_clusters_tool(req.id, tool_params.arguments)
                 ELSE {McpResponse_error(req.id, -32602, "Unknown tool")}

\* The responses McpServer::handle_request may give to a request, by the
\* handler it dispatches to.
Answers(req) ==
    IF req.method = "initialize" THEN {handle_initialize(req)}
    ELSE IF req.method = "tools/list" THEN {handle_tools_list(req)}
    ELSE IF req.method = "tools/call" THEN handle_tool_call(req)
    ELSE {McpResponse_error(req.id, -32601, "Method not found")}

\* McpServer::handle_request, with the handler it dispatches to.
handle_request ==
    /\ pc = "request"
    /\ \E answer \in Answers(request[1]) : response' = Some(answer)
    /\ pc' = "responded"
    /\ UNCHANGED <<detectVars, ret, compare, min_similarity, min_cluster_size,
                   batchVars, mergeVars, outlierVars, again, propVars, request,
                   serverVars, taskVars>>

(***************************************************************************)
(* McpServer::run.  A line of the standard input is blank (nothing but     *)
(* white space), the text of a request, text that is no request, or bytes  *)
(* that are not UTF-8 text; read_line, a tokio AsyncBufReadExt method,     *)
(* fails with InvalidData on the last kind, and like any read or write it  *)
(* may fail for reasons of the device.  Every `?` returns the error from   *)
(* run.                                                                    *)
(***************************************************************************)
Line(kind, req) == [kind |-> kind, request |-> req]

RunOk == Some([kind |-> "Ok", error |-> None])
RunErr(e) == Some([kind |-> "Err", error |-> Some(e)])

\* read_line returns 0: the end of the input.
run_eof ==
    /\ pc = "run"
    /\ consumed = Len(stdin)
    /\ run_result' = RunOk
    /\ pc' = "run_returned"
    /\ UNCHANGED <<detectVars, ret, compare, min_similarity, min_cluster_size,
                   batchVars, mergeVars, outlierVars, again, propVars, request,
                   response, stdin, consumed, stdout, taskVars>>

\* read_line returns a line: `continue` on a blank one, else the parse.
run_line ==
    /\ pc = "run"
    /\ consumed < Len(stdin)
    /\ consumed' = consumed + 1
    /\ LET line == stdin[consumed + 1]
       IN  IF line.kind = "bytes"
           THEN /\ run_result' = RunErr("InvalidData")
                /\ pc' = "run_returned"
                /\ UNCHANGED <<request, response>>
           ELSE IF line.kind = "blank"
           THEN /\ pc' = "run"
                /\ UNCHANGED <<request, response, run_result>>
           ELSE IF line.kind = "request"
           THEN /\ request' = line.request
                /\ pc' = "run_handle"
                /\ UNCHANGED <<response, run_result>>
           ELSE /\ response' = Some(McpResponse_error(JNull, -32700, "Parse error"))
                /\ pc' = "run_write"
                /\ UNCHANGED <<request, run_result>>
    /\ UNCHANGED <<detectVars, ret, compare, min_similarity, min_cluster_size,
                   batchVars, mergeVars, outlierVars, again, propVars, stdin,
                   stdout, taskVars>>

\* read_line fails on the device.
run_read_failed ==
    /\ pc = "run"
    /\ run_result' = RunErr("Io")
    /\ pc' = "run_returned"
    /\ UNCHANGED <<detectVars, ret, compare, min_similarity, min_cluster_size,
                   batchVars, mergeVars, outlierVars, again, propVars, request,
                   response, stdin, consumed, stdout, taskVars>>

\* self.handle_request(request).await
run_handle ==
    /\ pc = "run_handle"
    /\ \E answer \in Answers(request[1]) : response' = Some(answer)
    /\ pc' = "run_write"
    /\ UNCHANGED <<detectVars, ret, compare, min_similarity, min_cluster_size,
                   batchVars, mergeVars, outlierVars, again, propVars, request,
                   serverVars, taskVars>>

\* write_all of the response and of the newline, and flush; the loop then
\* starts over with its locals dropped.
run_write ==
    /\ pc = "run_write"
    /\ stdout' = Append(stdout, response[1])
    /\ request' = None
    /\ response' = None
    /\ pc' = "run"
    /\ UNCHANGED <<detectVars, ret, compare, min_similarity, min_cluster_size,
                   batchVars, mergeVars, outlierVars, again, propVars, stdin,
                   consumed, run_result, taskVars>>

\* One of the writes or the flush fails; whether the line got out is open.
run_write_failed ==
    /\ pc = "run_write"
    /\ stdout' \in {stdout, Append(stdout, response[1])}
    /\ run_result' = RunErr("Io")
    /\ pc' = "run_returned"
    /\ UNCHANGED <<detectVars, ret, compare, min_similarity, min_cluster_size,
                   batchVars, mergeVars, outlierVars, again, propVars, request,
                   response, stdin, consumed, taskVars>>

RunNext ==
    \/ run_eof
    \/ run_line
    \/ run_read_failed
    \/ run_handle
    \/ run_write
    \/ run_write_failed

(***************************************************************************)
(* A request the server has read from a line: any id, a method the server  *)
(* knows or not, and params of every shape.                                *)
(***************************************************************************)
RequestIds == {JNull, JNumber(1), JString("a")}
Methods == {"initialize", "tools/list", "tools/call", "tools/Call", "ping"}
ToolNames ==
    {"dedupe", "search", "count", "outliers", "analyze_file_clusters", "unknown_tool"}

ArgumentValues ==
    {JNull,
     JObject(EmptyObject),
     JObject([EmptyObject EXCEPT !.path = Some(JString("."))]),
     JObject([EmptyObject EXCEPT !.path = Some(JNumber(5))]),
     JObject([EmptyObject EXCEPT !.path = Some(JString(".")),
                                 !.pattern_type = Some(JString("regex"))]),
     JObject([EmptyObject EXCEPT !.path = Some(JString(".")),
                                 !.pattern_type = Some(JString("bogus"))])}

NameValues == {JString(t) : t \in ToolNames} \cup {JNumber(7)}

ParamValues ==
    {JNull, JString("dedupe"), JArray(<<>>)}
        \cup {JArray(<<n>>) : n \in NameValues}
        \cup {JArray(<<n, a>>) : n \in NameValues, a \in ArgumentValues}
        \cup {JArray(<<n, JObject(EmptyObject), JNull>>) : n \in NameValues}
        \cup {JObject([EmptyObject EXCEPT !.name = n, !.arguments = a, !.invalid = i]) :
                 n \in {None} \cup {Some(x) : x \in NameValues},
                 a \in {None} \cup {Some(x) : x \in ArgumentValues},
                 i \in {None, Some(JString("params"))}}

Requests ==
    {[jsonrpc |-> j, id |-> i, method |-> meth, params |-> p] :
        j \in {"2.0", "1.0"}, i \in RequestIds, meth \in Methods,
        p \in {None} \cup {Some(v) : v \in ParamValues}}

InitMcp ==
    /\ ret = "returned"
    /\ again = Pending
    /\ pc = "request"
    /\ files = <<>>
    /\ compare = <<>>
    /\ min_similarity = 50
    /\ min_cluster_size = 1
    /\ Idle
    /\ NoBatch
    /\ NoMerge
    /\ NoOutliers
    /\ NoConversion
    /\ request \in {Some(r) : r \in Requests}
    /\ response = None
    /\ NoServer
    /\ NoTasks

SpecMcp == InitMcp /\ [][handle_request]_vars

(***************************************************************************)
(* A call of the analyze_file_clusters tool with a min_similarity          *)
(* argument: an integer in or out of 50..100, below or above 255, or       *)
(* negative.                                                               *)
(***************************************************************************)
SimilarityArguments ==
    {-1, 0, 49, 50, 70, 100, 101, 255, 256, 305, 306, 326, 356, 357, 65586}

ClusterToolArguments ==
    {JObject([EmptyObject EXCEPT !.min_similarity = Some(JNumber(n)), !.path = p]) :
        n \in SimilarityArguments, p \in {None, Some(JString("."))}}

ClusterToolParams ==
    {JArray(<<JString("analyze_file_clusters"), a>>) : a \in ClusterToolArguments}
        \cup {JObject([EmptyObject EXCEPT !.name = Some(JString("analyze_file_clusters")),
                                          !.arguments = Some(a)]) :
                  a \in ClusterToolArguments}

InitClusterTool ==
    /\ ret = "returned"
    /\ again = Pending
    /\ pc = "request"
    /\ files = <<>>
    /\ compare = <<>>
    /\ min_similarity = 50
    /\ min_cluster_size = 1
    /\ Idle
    /\ NoBatch
    /\ NoMerge
    /\ NoOutliers
    /\ NoConversion
    /\ \E i \in RequestIds, p \in ClusterToolParams :
          request = Some([jsonrpc |-> "2.0", id |-> i, method |-> "tools/call",
                          params |-> Some(p)])
    /\ response = None
    /\ NoServer
    /\ NoTasks

SpecClusterTool == InitClusterTool /\ [][handle_request]_vars

(***************************************************************************)
(* A run of the server on a few lines of input.                            *)
(***************************************************************************)
MaxLines == 3

LineValues ==
    {Line("blank", None), Line("text", None), Line("bytes", None),
     Line("request", Some([jsonrpc |-> "2.0", id |-> JNumber(1),
                           method |-> "initialize", params |-> None])),
     Line("request", Some([jsonrpc |-> "2.0", id |-> JString("a"),
                           method |-> "ping", params |-> None])),
     Line("request", Some([jsonrpc |-> "2.0", id |-> JNumber(2),
                           method |-> "tools/call",
                           params |-> Some(JArray(<<JString("outliers"),
                               JObject([EmptyObject EXCEPT
                                           !.path = Some(JString("."))])>>))]))}

InitRun ==
    /\ ret = "returned"
    /\ again = Pending
    /\ pc = "run"
    /\ files = <<>>
    /\ compare = <<>>
    /\ min_similarity = 50
    /\ min_cluster_size = 1
    /\ Idle
    /\ NoBatch
    /\ NoMerge
    /\ NoOutliers
    /\ NoConversion
    /\ NoRequest
    /\ NoTasks
    /\ \E n \in 0..MaxLines : stdin \in [1..n -> LineValues]
    /\ consumed = 0
    /\ stdout = <<>>
    /\ run_result = None

SpecRun == InitRun /\ [][RunNext]_vars

(***************************************************************************)
(* The claims.                                                             *)
(***************************************************************************)
Returned == pc = "returned"
PathsOf(cluster) == {cluster.files[k].path : k \in 1..Len(cluster.files)}

\* C1: when detect_large_file_clusters returns clusters for files of
\* pairwise distinct paths, no path is in two of the clusters, and no path is
\* twice in one cluster.
C1_ClustersDisjoint ==
    (Returned /\ result.kind = "Ok") =>
        /\ \A a, b \in DOMAIN result.clusters :
              a # b => PathsOf(result.clusters[a]) \cap PathsOf(result.clusters[b]) = {}
        /\ \A a \in DOMAIN result.clusters :
              Cardinality(PathsOf(result.clusters[a])) = Len(result.clusters[a].files)

\* Two clusters were returned, one of them of two files or more.
C1_Witness ==
    /\ Returned
    /\ result.kind = "Ok"
    /\ Len(result.clusters) >= 2
    /\ \E a \in DOMAIN result.clusters : Len(result.clusters[a].files) >= 2

\* C2: every cluster detect_large_file_clusters returns has at least
\* min_cluster_size files.
C2_MinimumClusterSize ==
    (Returned /\ result.kind = "Ok") =>
        \A a \in DOMAIN result.clusters :
            Len(result.clusters[a].files) >= min_cluster_size

\* C3: with min_cluster_size 2, every two files of a returned cluster whose
\* hashes ssdeep::compare can compare have a similarity of at least
\* min_similarity.
C3_ClusterSimilarity ==
    (Returned /\ result.kind = "Ok" /\ min_cluster_size = 2) =>
        \A a \in DOMAIN result.clusters :
            LET fs == result.clusters[a].files
            IN  \A i, j \in 1..Len(fs) :
                    (i < j /\ IsSome(compare[<<fs[i].ssdeep_hash[1], fs[j].ssdeep_hash[1]>>]))
                        => compare[<<fs[i].ssdeep_hash[1], fs[j].ssdeep_hash[1]>>][1]
                               >= min_similarity

\* C4: detect_large_file_clusters returns Err(InvalidSimilarity(v)) with the
\* v it was given exactly when v is outside 50..100, whatever the files and
\* min_cluster_size, and then before it filtered a file or computed a
\* distance; with v inside 50..100 it returns Ok.
C4_InvalidSimilarity ==
    Returned =>
        /\ (min_similarity < 50 \/ min_similarity > 100) =>
              /\ result = Err(InvalidSimilarity(min_similarity))
              /\ hashable_files = <<>>
              /\ distances = <<>>
              /\ labels = <<>>
        /\ (min_similarity >= 50 /\ min_similarity <= 100) => result.kind = "Ok"

\* An invalid min_similarity was refused on a list shorter than
\* min_cluster_size.
C4_Witness ==
    /\ Returned
    /\ result.kind = "Err"
    /\ Len(files) < min_cluster_size

\* C5: detect_clusters_batched returns Err(InvalidSimilarity(v)) for every
\* min_similarity v outside 50..100, whatever the files, min_cluster_size and
\* batch_size, for a small batch and for a bucketed one.
C5_BatchedInvalidSimilarity ==
    (pc = "batched_returned" /\ ~(min_similarity >= 50 /\ min_similarity <= 100)) =>
        batched_result = Err(InvalidSimilarity(min_similarity))

(***************************************************************************)
(* C6.  When detect_outliers runs with enable_clustering and a             *)
(* cluster_similarity_threshold outside 50..=100, the caller receives a    *)
(* typed error for the malformed parameter, not a successful report: once  *)
(* the call has returned from a walk that found files, the result is the   *)
(* error InvalidSimilarity.                                                *)
(***************************************************************************)
OutliersReturned == pc = "outliers_returned"

C6_ReportRejectsThreshold ==
    (/\ OutliersReturned
     /\ walk.kind = "Ok"
     /\ walk.files # <<>>
     /\ options.enable_clustering
     /\ (options.cluster_similarity_threshold < 50
            \/ options.cluster_similarity_threshold > 100))
        => /\ report.kind = "Err"
           /\ report.error = InvalidSimilarity(options.cluster_similarity_threshold)

\* C7: build_distance_matrix returns an N x N matrix that is symmetric, has
\* a zero diagonal, and holds 100 - similarity(i, j) in 0..100 off the
\* diagonal, the similarity being 0 when a hash is missing or the
\* comparison fails.
C7_Similarity(i, j) ==
    LET a == files[i + 1]
        b == files[j + 1]
    IN  IF a.ssdeep_hash = None \/ b.ssdeep_hash = None THEN 0
        ELSE IF compare[<<a.ssdeep_hash[1], b.ssdeep_hash[1]>>] = None THEN 0
        ELSE compare[<<a.ssdeep_hash[1], b.ssdeep_hash[1]>>][1]

C7_DistanceMatrix ==
    pc = "matrix_built" =>
        LET N == 0..(Len(files) - 1)
        IN  /\ DOMAIN distances = N
            /\ \A i \in N : DOMAIN distances[i] = N
            /\ \A i, j \in N : distances[i][j] = distances[j][i]
            /\ \A i \in N : distances[i][i] = 0
            /\ \A i, j \in N :
                  i < j => /\ distances[i][j] = 100 - C7_Similarity(i, j)
                           /\ distances[i][j] >= 0
                           /\ distances[i][j] <= 100

\* A matrix was built over a file without a hash, a pair whose comparison
\* failed and a pair that scored.
C7_Witness ==
    /\ pc = "matrix_built"
    /\ \E k \in 1..Len(files) : files[k].ssdeep_hash = None
    /\ \E pr \in DOMAIN compare : compare[pr] = None
    /\ \E i, j \in DOMAIN distances : i < j /\ distances[j][i] = 100 - HighScore

\* C8: whenever two of the input clusters of merge_overlapping_clusters
\* share a path, one cluster of the output holds the files of both, and it is
\* the union of the two when they are the whole input; every cluster of the
\* output has each path once and a total_size that is the sum of the sizes
\* of its files, whatever total_size the input clusters carried.
C8_MergeUnion ==
    pc = "merged" =>
        /\ \A m \in DOMAIN merged :
              /\ merged[m].total_size = SumSeq(SizesOf(merged[m].files))
              /\ Cardinality(PathsOf(merged[m])) = Len(merged[m].files)
        /\ \A a, b \in DOMAIN clusters :
              (a < b /\ PathsOf(clusters[a]) \cap PathsOf(clusters[b]) # {}) =>
                  \E m \in DOMAIN merged :
                      PathsOf(clusters[a]) \cup PathsOf(clusters[b]) \subseteq PathsOf(merged[m])
        /\ (Len(clusters) = 2 /\ PathsOf(clusters[1]) \cap PathsOf(clusters[2]) # {}) =>
              /\ Len(merged) = 1
              /\ PathsOf(merged[1]) = PathsOf(clusters[1]) \cup PathsOf(clusters[2])

\* C9: no two clusters merge_overlapping_clusters returns share a path.
C9_MergedDisjoint ==
    pc = "merged" =>
        \A a, b \in DOMAIN merged :
            a # b => PathsOf(merged[a]) \cap PathsOf(merged[b]) = {}

(***************************************************************************)
(* C10.  detect_large_file_outliers reports a file if and only if its size *)
(* is at least min_size (when min_size is set) and its z-score is strictly *)
(* greater than std_dev_threshold, the mean and the standard deviation     *)
(* being those of the population of ALL the input files; each entry        *)
(* records that z-score; top_n only cuts the list short.  Nine files of    *)
(* one size and one of a hundred times that size, with threshold 1.5,      *)
(* report exactly the large file.                                          *)
(*                                                                         *)
(* The population statistics are computed here from the sums of the sizes  *)
(* and of their squares: variance = (n * sum(x^2) - sum(x)^2) / n^2.       *)
(***************************************************************************)
RECURSIVE SumOfSquares(_)
SumOfSquares(s) == IF s = <<>> THEN 0 ELSE Head(s) * Head(s) + SumOfSquares(Tail(s))

PopulationScore(f, fs) ==
    LET n == Len(fs)
        sum == SumSeq(SizesOf(fs))
        spread == n * SumOfSquares(SizesOf(fs)) - sum * sum
    IN  IF spread = 0 THEN ZeroScore
        ELSE [diff |-> Quot(n * f.size_bytes - sum, n),
              variance |-> Quot(spread, n * n)]

QualifiesAsOutlier(f, fs, opts) ==
    /\ IsSome(opts.min_size) => f.size_bytes >= opts.min_size[1]
    /\ ScoreExceeds(PopulationScore(f, fs), opts.std_dev_threshold)

StatsReturned == pc = "large_files_returned"

C11_Qualifying ==
    {k \in 1..Len(file_infos) : QualifiesAsOutlier(file_infos[k], file_infos, options)}

C11_Kept ==
    {k \in C11_Qualifying : \E r \in 1..Len(large_files) : large_files[r].path = file_infos[k].path}

C11_SortedAndTruncated ==
    StatsReturned =>
        /\ \A r \in 1..(Len(large_files) - 1) :
               large_files[r].size_bytes >= large_files[r + 1].size_bytes
        /\ IsSome(options.top_n) => Len(large_files) <= options.top_n[1]
        /\ Len(large_files) = IF IsSome(options.top_n)
                                   /\ options.top_n[1] < Cardinality(C11_Qualifying)
                              THEN options.top_n[1]
                              ELSE Cardinality(C11_Qualifying)
        /\ Cardinality(C11_Kept) = Len(large_files)
        /\ \A r \in 1..Len(large_files) :
               \E k \in C11_Kept : /\ file_infos[k].path = large_files[r].path
                                   /\ file_infos[k].size_bytes = large_files[r].size_bytes
        /\ \A k \in C11_Kept, o \in C11_Qualifying \ C11_Kept :
               file_infos[o].size_bytes <= file_infos[k].size_bytes
        /\ Len(large_files) <= Len(file_infos)

\* top_n cut the list to one entry, and the entry kept is not the first
\* outlier of the input but a larger one that came after it.
C11_Witness ==
    /\ StatsReturned
    /\ options.top_n = Some(1)
    /\ Len(large_files) = 1
    /\ \E first \in C11_Qualifying, kept \in C11_Kept :
          /\ first < kept
          /\ file_infos[first].size_bytes < file_infos[kept].size_bytes

(***************************************************************************)
(* C12.  simple_dbscan on four points with distance(0,1) = 10,             *)
(* distance(2,3) = 10, every other distance 90, epsilon 20 and min_points  *)
(* 2 labels all four points, points 0 and 1 alike, points 2 and 3 alike,   *)
(* and the two pairs differently.  In general, when `distance <= epsilon`  *)
(* is transitive and every point has at least min_points points within     *)
(* epsilon (itself included), every point is labelled and two points carry *)
(* the same label exactly when they are within epsilon of one another.     *)
(***************************************************************************)
DbscanDone == pc = "scan" /\ idx >= NumPoints

C12_Within(i, j) == distances[i][j] <= epsilon

C12_Partitioned ==
    /\ \A i, j, k \in DOMAIN distances :
          (C12_Within(i, j) /\ C12_Within(j, k)) => C12_Within(i, k)
    /\ \A i \in DOMAIN distances :
          Cardinality({j \in DOMAIN distances : C12_Within(i, j)}) >= min_cluster_size

C12_DbscanGroups ==
    DbscanDone =>
        /\ C12_Partitioned =>
              /\ \A i \in DOMAIN distances : IsSome(labels[i])
              /\ \A i, j \in DOMAIN distances :
                    (labels[i] = labels[j]) <=> C12_Within(i, j)
        /\ (distances = TwoGroups /\ epsilon = 20 /\ min_cluster_size = 2) =>
              /\ \A i \in 0..3 : IsSome(labels[i])
              /\ labels[0] = labels[1]
              /\ labels[2] = labels[3]
              /\ labels[0] # labels[2]

\* The scan of the two groups of two is through, with two labels given out.
C12_Witness ==
    /\ DbscanDone
    /\ distances = TwoGroups
    /\ epsilon = 20
    /\ min_cluster_size = 2
    /\ labels[1] = Some(0)
    /\ labels[3] = Some(1)

(***************************************************************************)
(* C13.  aggregate_clusters emits exactly one cluster for each label that  *)
(* some file carries, holding exactly the files that carry it; its         *)
(* total_size is the sum of their sizes, its avg_similarity the mean of    *)
(* 100 - distance over the unordered pairs of its members (100 for one     *)
(* member), its density the share of those pairs at a distance below 30    *)
(* (1 for one member); a file with label None is in no cluster.            *)
(***************************************************************************)
Aggregated == pc = "aggregated"

C13_Members(id) == {i \in DOMAIN labels : labels[i] = Some(id)}
C13_Pairs(id) == {ij \in C13_Members(id) \X C13_Members(id) : ij[1] < ij[2]}

RECURSIVE C13_Sum(_, _)
C13_Sum(S, f) ==
    IF S = {} THEN 0
    ELSE LET x == CHOOSE y \in S : TRUE IN f[x] + C13_Sum(S \ {x}, f)

C13_ClusterOfLabel(c, id) ==
    LET members == C13_Members(id)
        pairs == C13_Pairs(id)
    IN  /\ c.cluster_id = id
        /\ Len(c.files) = Cardinality(members)
        /\ {c.files[k] : k \in 1..Len(c.files)} = {hashable_files[i + 1] : i \in members}
        /\ c.total_size = C13_Sum(members, [i \in members |-> hashable_files[i + 1].size_bytes])
        /\ IF Cardinality(members) <= 1
           THEN c.avg_similarity = <<100, 1>> /\ c.density = <<1, 1>>
           ELSE /\ c.avg_similarity[2] > 0
                /\ c.avg_similarity[1] * Cardinality(pairs)
                      = C13_Sum(pairs, [ij \in pairs |-> 100 - distances[ij[1]][ij[2]]])
                            * c.avg_similarity[2]
                /\ c.density[2] > 0
                /\ c.density[1] * Cardinality(pairs)
                      = Cardinality({ij \in pairs : distances[ij[1]][ij[2]] < 30})
                            * c.density[2]

C13_AggregateStatistics ==
    Aggregated =>
        LET ids == {labels[i][1] : i \in {j \in DOMAIN labels : IsSome(labels[j])}}
        IN  /\ Len(result.clusters) = Cardinality(ids)
            /\ \A id \in ids :
                  \E k \in 1..Len(result.clusters) :
                      C13_ClusterOfLabel(result.clusters[k], id)
            /\ \A i \in DOMAIN labels :
                  labels[i] = None =>
                      \A k \in 1..Len(result.clusters) :
                          hashable_files[i + 1].path \notin PathsOf(result.clusters[k])

\* Two labels, 0 and 2: a cluster of two files at the very distance of the
\* cut, so of density 0, and a cluster of one file.
C13_Witness ==
    /\ Aggregated
    /\ Len(result.clusters) = 2
    /\ \E k \in 1..Len(result.clusters) :
          /\ Len(result.clusters[k].files) = 2
          /\ result.clusters[k].avg_similarity = <<100 - DensityCut, 1>>
          /\ result.clusters[k].density = <<0, 1>>

(***************************************************************************)
(* C14.  Two calls of aggregate_clusters on the same labels, files and     *)
(* distance matrix return the same list: the same clusters in the same     *)
(* order, with the same cluster_id, files, total_size, avg_similarity and  *)
(* density.                                                                *)
(***************************************************************************)
AggregatedTwice == pc = "aggregated_twice"

C14_AggregateIdempotent == AggregatedTwice => again = result

(***************************************************************************)
(* C15.  With a min_similarity in 50..=100, detect_large_file_clusters     *)
(* returns Ok with an empty list, and no error, whenever there are fewer   *)
(* files than min_cluster_size or fewer files with a fuzzy hash than       *)
(* min_cluster_size; and a file without a hash is in no returned cluster.  *)
(***************************************************************************)
C15_Hashed == {k \in 1..Len(files) : IsSome(files[k].ssdeep_hash)}

C15_ShortCircuit ==
    (Returned /\ min_similarity >= 50 /\ min_similarity <= 100) =>
        /\ result.kind = "Ok"
        /\ (Len(files) < min_cluster_size \/ Cardinality(C15_Hashed) < min_cluster_size)
              => result = Ok(<<>>)
        /\ \A c \in 1..Len(result.clusters) :
              \A k \in 1..Len(result.clusters[c].files) :
                  /\ IsSome(result.clusters[c].files[k].ssdeep_hash)
                  /\ \E h \in C15_Hashed : files[h] = result.clusters[c].files[k]

\* Enough files, too few of them with a hash: the second short circuit.
C15_Witness ==
    /\ Returned
    /\ min_similarity >= 50
    /\ min_similarity <= 100
    /\ Len(files) >= min_cluster_size
    /\ Cardinality(C15_Hashed) < min_cluster_size
    /\ Cardinality(C15_Hashed) > 0
    /\ result = Ok(<<>>)

(***************************************************************************)
(* C16.  detect_pattern_groups emits a group for a (prefix, extension) key *)
(* exactly when three or more of the files map to that key; the count of   *)
(* the group is the number of those files, its total_size_bytes the sum of *)
(* their sizes, its sample_files at most five of them; no file is in the   *)
(* samples of two groups; the groups are sorted by total_size_bytes,       *)
(* largest first.  Three or more files backup-000.tar, backup-001.tar, ..  *)
(* give one group with their number as count and `backup` in its pattern.  *)
(***************************************************************************)
PatternsReturned == pc = "patterns_returned"

\* The (prefix, extension) key of a file name: the captures of the numbered
\* expression, or else of the dated one.
C16_Key(name) ==
    IF IsSome(detect_numbered_pattern(name)) THEN detect_numbered_pattern(name)
    ELSE detect_dated_pattern(name)

C16_FilesOf(key) == {k \in 1..Len(file_infos) : C16_Key(file_infos[k].path.name) = Some(key)}

C16_Keys ==
    {key \in {C16_Key(file_infos[k].path.name)[1] :
                 k \in {j \in 1..Len(file_infos) : IsSome(C16_Key(file_infos[j].path.name))}} :
        Cardinality(C16_FilesOf(key)) >= 3}

C16_GroupOfKey(g, key) ==
    LET members == C16_FilesOf(key)
    IN  /\ g.pattern = key[1] \o <<"*">> \o key[2]
        /\ g.count = Cardinality(members)
        /\ g.total_size_bytes = C13_Sum(members, [k \in members |-> file_infos[k].size_bytes])
        /\ Len(g.sample_files) <= 5
        /\ \A x \in 1..Len(g.sample_files) :
               \E k \in members : file_infos[k].path = g.sample_files[x]

C16_PatternGroups ==
    PatternsReturned =>
        /\ Len(pattern_groups) = Cardinality(C16_Keys)
        /\ \A key \in C16_Keys :
              \E x \in 1..Len(pattern_groups) : C16_GroupOfKey(pattern_groups[x], key)
        /\ \A x \in 1..Len(pattern_groups) :
              \E key \in C16_Keys : C16_GroupOfKey(pattern_groups[x], key)
        /\ \A x, y \in 1..Len(pattern_groups) :
              x < y =>
                  /\ pattern_groups[x].total_size_bytes >= pattern_groups[y].total_size_bytes
                  /\ \A a \in 1..Len(pattern_groups[x].sample_files),
                        b \in 1..Len(pattern_groups[y].sample_files) :
                        pattern_groups[x].sample_files[a] # pattern_groups[y].sample_files[b]
        /\ (/\ Len(file_infos) >= 3
            /\ \A k \in 1..Len(file_infos) : file_infos[k].path.name = BackupName(k))
              => /\ Len(pattern_groups) = 1
                 /\ pattern_groups[1].count = Len(file_infos)
                 /\ SubSeq(pattern_groups[1].pattern, 1, 6) = SubSeq(BackupName(1), 1, 6)

(***************************************************************************)
(* C17.  detect_hidden_consumers emits at most one record for a directory, *)
(* and one exactly when the last component of the directory is in the      *)
(* table and the sizes of the file records whose parent it is add up to    *)
(* more than 0; total_size_bytes and file_count of the record are that sum *)
(* and the number of those records, description and recommendation are     *)
(* those of the first entry of the table that matches, and the records are *)
(* sorted by total_size_bytes, largest first.                              *)
(***************************************************************************)
ConsumersReturned == pc = "consumers_returned"

C17_RecordsIn(dir) == {k \in 1..Len(file_infos) : file_infos[k].path.dir = dir}
C17_SizeIn(dir) ==
    C13_Sum(C17_RecordsIn(dir), [k \in C17_RecordsIn(dir) |-> file_infos[k].size_bytes])

C17_EntriesFor(dir) ==
    {e \in 1..Len(HIDDEN_CONSUMER_PATTERNS) :
        dir # <<>> /\ HIDDEN_CONSUMER_PATTERNS[e][1] = dir[Len(dir)]}

C17_Expected ==
    {dir \in {file_infos[k].path.dir : k \in 1..Len(file_infos)} :
        C17_EntriesFor(dir) # {} /\ C17_SizeIn(dir) > 0}

C17_RecordOf(c, dir) ==
    LET first == CHOOSE e \in C17_EntriesFor(dir) : \A o \in C17_EntriesFor(dir) : e <= o
    IN  /\ c.path = dir
        /\ c.total_size_bytes = C17_SizeIn(dir)
        /\ c.file_count = Cardinality(C17_RecordsIn(dir))
        /\ c.pattern_type = HIDDEN_CONSUMER_PATTERNS[first][2]
        /\ c.recommendation = HIDDEN_CONSUMER_PATTERNS[first][3]

C17_HiddenConsumers ==
    ConsumersReturned =>
        /\ Len(hidden_consumers) = Cardinality(C17_Expected)
        /\ \A dir \in C17_Expected :
              \E x \in 1..Len(hidden_consumers) : C17_RecordOf(hidden_consumers[x], dir)
        /\ \A x \in 1..Len(hidden_consumers) : hidden_consumers[x].path \in C17_Expected
        /\ \A x, y \in 1..Len(hidden_consumers) :
              x < y => /\ hidden_consumers[x].path # hidden_consumers[y].path
                       /\ hidden_consumers[x].total_size_bytes
                              >= hidden_consumers[y].total_size_bytes

\* Two directories of the table got a record each; the one of two files,
\* the larger, comes first.
C17_Witness ==
    /\ ConsumersReturned
    /\ Len(hidden_consumers) = 2
    /\ hidden_consumers[1].file_count = 2
    /\ hidden_consumers[1].total_size_bytes > hidden_consumers[2].total_size_bytes
    /\ hidden_consumers[1].path = <<"proj", "tmp">>
    /\ hidden_consumers[2].path = <<"proj", "node_modules">>

(***************************************************************************)
(* C18.  A report of detect_outliers counts in total_files_analyzed the    *)
(* walked files whose metadata could be read and sums their sizes in       *)
(* total_size_analyzed, whatever the options; hidden_consumers is empty    *)
(* when check_hidden_consumers is false, pattern_groups when               *)
(* check_patterns is false, large_file_clusters when enable_clustering is  *)
(* false; what a detector reports is what it reports on the same files     *)
(* with the three switches of the other detectors set any other way; and  *)
(* without a file record every list is empty and both totals are 0.        *)
(***************************************************************************)
C18_Records == SelectSeq(walk.files, LAMBDA e : e.metadata # None)
C18_TotalSize == SumSeq([k \in 1..Len(C18_Records) |-> C18_Records[k].metadata[1]])

\* The options with the switches set another way, `keep` being the switch
\* of the detector looked at.
C18_Toggled(keep) ==
    {o \in ReportOptions :
        /\ \A f \in {"min_size", "top_n", "std_dev_threshold", "include_empty_dirs",
                      "cluster_similarity_threshold", "min_cluster_size", keep} :
              o[f] = options[f]}

C18_Paths == [k \in 1..Len(walk.files) |-> walk.files[k].path]

C18_ReportFrame ==
    (OutliersReturned /\ report.kind = "Ok") =>
        LET r == report.report
        IN  /\ r.total_files_analyzed = Len(C18_Records)
            /\ r.total_size_analyzed = C18_TotalSize
            /\ ~options.check_hidden_consumers => r.hidden_consumers = <<>>
            /\ ~options.check_patterns => r.pattern_groups = <<>>
            /\ ~options.enable_clustering => r.large_file_clusters = <<>>
            /\ \A o \in C18_Toggled("top_n") :
                  walk.files # <<>> =>
                      r.large_files = detect_large_file_outliers(
                                          CollectFileInfos(walk.files, o), C18_TotalSize, o)
            /\ \A o \in C18_Toggled("check_hidden_consumers") :
                  r.hidden_consumers \in
                      (IF o.check_hidden_consumers /\ walk.files # <<>>
                       THEN detect_hidden_consumers(C18_Paths, CollectFileInfos(walk.files, o))
                       ELSE {<<>>})
            /\ \A o \in C18_Toggled("check_patterns") :
                  r.pattern_groups \in
                      (IF o.check_patterns /\ walk.files # <<>>
                       THEN detect_pattern_groups(CollectFileInfos(walk.files, o))
                       ELSE {<<>>})
            /\ \A o \in C18_Toggled("enable_clustering") :
                  (options.enable_clustering /\ walk.files # <<>>) =>
                      /\ files = FilesForClustering(CollectFileInfos(walk.files, o), o)
                      /\ r.large_file_clusters = UnwrapOrEmpty(result)
            /\ C18_Records = <<>> =>
                  r = OutlierReport(<<>>, <<>>, <<>>, <<>>, 0, 0)

\* A report with all three switches on that has a hidden consumer and a
\* cluster in it, over a walk with a file whose metadata could not be read.
C18_Witness ==
    /\ OutliersReturned
    /\ report.kind = "Ok"
    /\ options.check_hidden_consumers
    /\ options.check_patterns
    /\ options.enable_clustering
    /\ Len(C18_Records) < Len(walk.files)
    /\ report.report.hidden_consumers # <<>>
    /\ report.report.large_file_clusters # <<>>
    /\ report.report.total_size_analyzed > MiB

\* A report without a file record, from a walk that found files.
C18_EmptyWitness ==
    /\ OutliersReturned
    /\ report.kind = "Ok"
    /\ walk.files # <<>>
    /\ C18_Records = <<>>

(***************************************************************************)
(* C19.  similarity_to_distance is strictly decreasing on 0..100: of two   *)
(* similarities the smaller has the greater distance, equal similarities   *)
(* have equal distances; similarity 100 has distance 0 and similarity 0    *)
(* has distance 100.                                                       *)
(***************************************************************************)
Converted == pc = "converted"

C19_StrictlyDecreasing ==
    Converted =>
        /\ s1 < s2 => d1[1] > d2[1]
        /\ s1 > s2 => d1[1] < d2[1]
        /\ s1 = s2 => d1[1] = d2[1]
        /\ s1 = 100 => d1 = Some(0)
        /\ s1 = 0 => d1 = Some(100)

\* The two ends of the range were converted.
C19_Witness ==
    /\ Converted
    /\ s1 = 0
    /\ s2 = 100
    /\ d1 = Some(100)
    /\ d2 = Some(0)

(***************************************************************************)
(* C20.  The response to a request carries the id of the request, jsonrpc  *)
(* "2.0" and either a result or an error, never both and never neither; a  *)
(* method other than initialize, tools/list and tools/call is answered     *)
(* with error -32601; a tools/call without params, with params that are    *)
(* not a {name, arguments} with a string for the name, or with the name of *)
(* no tool, is answered with error -32602.                                 *)
(***************************************************************************)
Responded == pc = "responded"

C20_HasCode(code) ==
    /\ response[1].error # None
    /\ response[1].error[1].code = code

\* The params as the claim reads them: an object with a string under `name`
\* and some value under `arguments`, or the same two given by position.
C20_NameOf(p) ==
    IF p.type = "object" /\ p.value.name # None /\ p.value.arguments # None
    THEN p.value.name
    ELSE IF p.type = "array" /\ Len(p.value) = 2 THEN Some(p.value[1])
    ELSE None

C20_WellFormed(p) == C20_NameOf(p) # None /\ C20_NameOf(p)[1].type = "string"

C20_Tools == {"dedupe", "search", "count", "outliers", "analyze_file_clusters"}

C20_Responses ==
    Responded =>
        LET req == request[1]
            res == response[1]
        IN  /\ response # None
            /\ res.id = req.id
            /\ res.jsonrpc = "2.0"
            /\ (res.result = None) # (res.error = None)
            /\ req.method \notin {"initialize", "tools/list", "tools/call"} =>
                  C20_HasCode(-32601)
            /\ (req.method = "tools/call" /\ req.params = None) => C20_HasCode(-32602)
            /\ (/\ req.method = "tools/call"
                /\ req.params # None
                /\ ~C20_WellFormed(req.params[1])) => C20_HasCode(-32602)
            /\ (/\ req.method = "tools/call"
                /\ req.params # None
                /\ C20_WellFormed(req.params[1])
                /\ C20_NameOf(req.params[1])[1].value \notin C20_Tools) =>
                      C20_HasCode(-32602)

\* A tools/call that named no tool was answered, with the id of the request.
C20_Witness ==
    /\ Responded
    /\ request[1].method = "tools/call"
    /\ request[1].id = JString("a")
    /\ request[1].params # None
    /\ request[1].params[1].type = "object"
    /\ request[1].params[1].value.name = Some(JString("unknown_tool"))
    /\ request[1].params[1].value.arguments # None
    /\ response[1].id = JString("a")
    /\ C20_HasCode(-32602)

(***************************************************************************)
(* C21.  When simple_dbscan is through, a point is without a label exactly *)
(* when it is not a core point and no core point is within epsilon of it;  *)
(* every core point has a label; and every point with a label is a core    *)
(* point or within epsilon of a core point that has the same label.        *)
(***************************************************************************)
C21_Core(i) ==
    Cardinality({j \in DOMAIN distances : distances[i][j] <= epsilon}) >= min_cluster_size

C21_NearCore(i) ==
    {j \in DOMAIN distances : C21_Core(j) /\ distances[j][i] <= epsilon}

C21_NoiseExactly ==
    DbscanDone =>
        \A i \in DOMAIN distances :
            /\ (labels[i] = None) <=> (~C21_Core(i) /\ C21_NearCore(i) = {})
            /\ C21_Core(i) => labels[i] # None
            /\ labels[i] # None =>
                  \/ C21_Core(i)
                  \/ \E j \in C21_NearCore(i) : labels[j] = labels[i]

\* A scan ended with a noise point, a border point and a core point.
C21_Witness ==
    /\ DbscanDone
    /\ \E i, j, k \in DOMAIN distances :
          /\ labels[i] = None
          /\ labels[j] # None /\ ~C21_Core(j)
          /\ labels[k] # None /\ C21_Core(k)

(***************************************************************************)
(* C22.  When simple_dbscan is through, two core points within epsilon of  *)
(* one another have the same label, and so do all the core points joined   *)
(* by a chain of core points each within epsilon of the next.              *)
(***************************************************************************)
C22_Cores == {i \in DOMAIN distances : C21_Core(i)}

\* The core points a chain of core points leads to from those of S.
RECURSIVE C22_Chained(_)
C22_Chained(S) ==
    LET T == S \cup {j \in C22_Cores : \E i \in S : distances[i][j] <= epsilon}
    IN  IF T = S THEN S ELSE C22_Chained(T)

C22_CoresTogether ==
    DbscanDone =>
        /\ \A i, j \in C22_Cores :
              distances[i][j] <= epsilon => labels[i] = labels[j]
        /\ \A i \in C22_Cores :
              \A j \in C22_Chained({i}) : labels[i] = labels[j]

\* Three core points in a chain whose ends are farther apart than epsilon
\* ended with one label, the point in the middle having the highest index.
C22_Witness ==
    /\ DbscanDone
    /\ \E i, j, k \in C22_Cores :
          /\ i < k /\ k < j
          /\ distances[i][j] <= epsilon
          /\ distances[j][k] <= epsilon
          /\ distances[i][k] > epsilon
          /\ labels[i] = labels[k]

(***************************************************************************)
(* C23.  In every state of a run of simple_dbscan a point with a label is  *)
(* visited, and no step changes or clears a label that is set: a border    *)
(* point keeps the id of the first expansion that reached it, and the      *)
(* assignment at the start of expand_cluster is to a point without a       *)
(* label.                                                                  *)
(***************************************************************************)
C23_LabelledVisited ==
    \A i \in DOMAIN labels : labels[i] # None => visited[i]

C23_LabelsKept ==
    /\ \A i \in DOMAIN labels : labels[i] # None => labels'[i] = labels[i]
    /\ (pc = "scan" /\ pc' = "expand") => labels[idx] = None

C23_LabelsStable == [](C23_LabelledVisited) /\ [][C23_LabelsKept]_vars

\* An expansion is at a seed that an earlier cluster has labelled.
C23_Witness ==
    /\ pc = "expand"
    /\ cursor < Len(seed_set)
    /\ cluster_id > 0
    /\ labels[seed_set[cursor + 1]] # None
    /\ labels[seed_set[cursor + 1]] # Some(cluster_id)

(***************************************************************************)
(* C24.  simple_dbscan comes to its end with every index visited.  While   *)
(* expand_cluster runs, seed_set holds no index twice and so is no longer  *)
(* than the number of points; a step of its loop moves the cursor up by    *)
(* one and leaves the seeds it has passed, and all the others, where they  *)
(* are, so that no position of seed_set is processed twice.                *)
(***************************************************************************)
C24_SeedsDistinct ==
    pc = "expand" =>
        /\ \A a, b \in 1..Len(seed_set) : a # b => seed_set[a] # seed_set[b]
        /\ Len(seed_set) <= NumPoints
        /\ cursor <= Len(seed_set)

C24_CursorAdvances ==
    (pc = "expand" /\ pc' = "expand") =>
        /\ cursor' = cursor + 1
        /\ Len(seed_set') >= Len(seed_set)
        /\ SubSeq(seed_set', 1, Len(seed_set)) = seed_set

C24_AllVisited == DbscanDone /\ \A i \in DOMAIN distances : visited[i]

C24_Terminates ==
    /\ [](C24_SeedsDistinct)
    /\ [][C24_CursorAdvances]_vars
    /\ <>(C24_AllVisited)

\* An expansion has come to the end of a seed_set that holds every point
\* and that started shorter.
C24_Witness ==
    /\ pc = "expand"
    /\ cursor = Len(seed_set)
    /\ NumPoints >= 3
    /\ Len(seed_set) = NumPoints
    /\ Len(Neighbors(distances, epsilon, idx)) < Len(seed_set)

(***************************************************************************)
(* C25.  simple_dbscan gives out cluster ids in the order it finds the     *)
(* clusters, from 0: when it has found k clusters the labels in use are    *)
(* exactly 0..k-1; the point a cluster starts at is a core point that gets *)
(* an id no point has yet; and the point cluster c starts at has a smaller *)
(* index than the point cluster c+1 starts at.                             *)
(***************************************************************************)
C25_InUse == {labels[i][1] : i \in {j \in DOMAIN labels : labels[j] # None}}

\* The point cluster c started at: its core point of the lowest index.
C25_Initiator(c) ==
    CHOOSE i \in C22_Cores :
        /\ labels[i] = Some(c)
        /\ \A j \in C22_Cores : labels[j] = Some(c) => i <= j

C25_IdsInOrder ==
    /\ pc = "scan" => C25_InUse = 0..(cluster_id - 1)
    /\ pc = "expand" => C25_InUse = 0..cluster_id
    /\ pc \in {"scan", "expand"} =>
          \A c \in C25_InUse :
              /\ \E i \in C22_Cores : labels[i] = Some(c)
              /\ (c + 1) \in C25_InUse => C25_Initiator(c) < C25_Initiator(c + 1)

C25_Initiates ==
    (pc = "scan" /\ pc' = "expand") =>
        /\ cluster_id \notin C25_InUse
        /\ labels'[idx] = Some(cluster_id)
        /\ C21_Core(idx)
        /\ \A i \in C22_Cores : i < idx => labels[i] # None

C25_DiscoveryOrder == [](C25_IdsInOrder) /\ [][C25_Initiates]_vars

\* Two clusters were found, and a point that is not a core point has the
\* id of the first.
C25_Witness ==
    /\ DbscanDone
    /\ cluster_id = 2
    /\ C25_InUse = {0, 1}
    /\ \E i \in DOMAIN distances : ~C21_Core(i) /\ labels[i] = Some(0)

(***************************************************************************)
(* C26.  In a call of detect_clusters_batched with more files than         *)
(* batch_size, the paths being pairwise distinct: a file is in at most one *)
(* LSH bucket, and in none when it has no hash or its hash has fewer than  *)
(* three fields; two files whose hashes agree in the block size and in the *)
(* first chunk are in the same bucket; detect_large_file_clusters is only  *)
(* called for a bucket of at least min_cluster_size files; and no path is  *)
(* in two clusters of the result.                                          *)
(***************************************************************************)
C26_Batched == Len(batch_files) > batch_size

\* The buckets the file at position p of batch_files is in.
C26_BucketsOf(p) ==
    {b \in 1..Len(lsh_buckets) :
        \E k \in 1..Len(lsh_buckets[b]) : lsh_buckets[b][k].path = batch_files[p].path}

C26_Bucketable(p) ==
    /\ batch_files[p].ssdeep_hash # None
    /\ batch_files[p].ssdeep_hash[1].fields >= 3

C26_BucketsDisjoint ==
    (C26_Batched /\ pc # "batched") =>
        /\ \A p \in 1..Len(batch_files) :
              /\ Cardinality(C26_BucketsOf(p)) <= 1
              /\ ~C26_Bucketable(p) => C26_BucketsOf(p) = {}
              /\ C26_Bucketable(p) => C26_BucketsOf(p) # {}
        /\ \A b \in 1..Len(lsh_buckets) :
              \A k, l \in 1..Len(lsh_buckets[b]) :
                  k # l => lsh_buckets[b][k].path # lsh_buckets[b][l].path
        /\ \A p, q \in 1..Len(batch_files) :
              (/\ C26_Bucketable(p)
               /\ C26_Bucketable(q)
               /\ batch_files[p].ssdeep_hash[1].block = batch_files[q].ssdeep_hash[1].block
               /\ batch_files[p].ssdeep_hash[1].chunk = batch_files[q].ssdeep_hash[1].chunk)
                  => C26_BucketsOf(p) = C26_BucketsOf(q)
        /\ (pc = "batched_returned" /\ batched_result.kind = "Ok") =>
              \A a, b \in 1..Len(batched_result.clusters) :
                  a # b => PathsOf(batched_result.clusters[a])
                              \cap PathsOf(batched_result.clusters[b]) = {}

C26_SmallBucketsSkipped ==
    (C26_Batched /\ pc = "buckets" /\ bucket < Len(lsh_buckets)) =>
        IF Len(lsh_buckets[bucket + 1]) >= min_cluster_size
        THEN pc' = "detect" /\ files' = lsh_buckets[bucket + 1]
        ELSE pc' = "buckets" /\ bucket' = bucket + 1 /\ all_clusters' = all_clusters

C26_BucketsApart == [](C26_BucketsDisjoint) /\ [][C26_SmallBucketsSkipped]_vars

\* Three files went to two buckets, the bucket of one file was skipped and
\* the bucket of two files gave the one cluster of the result.
C26_Witness ==
    /\ pc = "batched_returned"
    /\ C26_Batched
    /\ Len(batch_files) = 3
    /\ Len(lsh_buckets) = 2
    /\ min_cluster_size = 2
    /\ batched_result.kind = "Ok"
    /\ Len(batched_result.clusters) = 1
    /\ Len(batched_result.clusters[1].files) = 2

(***************************************************************************)
(* C27.  When all the files have the same size, detect_large_file_outliers *)
(* reports no outlier, whatever std_dev_threshold >= 0 it is given: the    *)
(* standard deviation is 0 and every z-score is taken as 0.                *)
(***************************************************************************)
EqualSizesReturned == pc = "huge_files_returned"

C27_NoOutlierAmongEquals ==
    (/\ EqualSizesReturned
     /\ \A a, b \in 1..Len(file_infos) : file_infos[a].size_bytes = file_infos[b].size_bytes
     /\ options.std_dev_threshold[1] >= 0)
        => large_files = <<>>

(***************************************************************************)
(* C28.  The analyze_file_clusters tool answers every min_similarity       *)
(* argument that is an unsigned integer outside 50..100 with an error: for *)
(* no such argument does it run the clustering and answer with a result.   *)
(***************************************************************************)
C28_Argument ==
    LET tool_params == ToolCallParams(request[1].params[1])[1]
    IN  tool_params.arguments.value.min_similarity[1].value

C28_OutOfRangeRejected ==
    (Responded /\ C28_Argument >= 0 /\ ~ValidSimilarity(C28_Argument))
        => (IsSome(response[1].error) /\ response[1].result = None)

(***************************************************************************)
(* C29.  McpServer::run takes the lines one at a time: when it reads a     *)
(* line, every non-blank line before it has got exactly one response,      *)
(* written and flushed, in the order of the lines; a blank line gets none; *)
(* a line that is no request gets the error -32700 with id null and the    *)
(* loop goes on; the loop ends, with Ok, exactly at the end of the input.  *)
(* Runs in which a read or a write fails on the device are left aside.     *)
(***************************************************************************)
C29_DeviceFailed == run_result = RunErr("Io")

C29_NonBlankRead ==
    SelectSeq(SubSeq(stdin, 1, consumed), LAMBDA line : line.kind # "blank")

C29_Expected(line) ==
    IF line.kind = "request" THEN Answers(line.request[1])
    ELSE {McpResponse_error(JNull, -32700, "Parse error")}

C29_InFlight == IF pc \in {"run_handle", "run_write"} THEN 1 ELSE 0

C29_OneAtATime ==
    ~C29_DeviceFailed =>
        /\ Len(stdout) = Len(C29_NonBlankRead) - C29_InFlight
        /\ \A k \in 1..Len(stdout) : stdout[k] \in C29_Expected(C29_NonBlankRead[k])
        /\ run_result # None => (run_result = RunOk /\ consumed = Len(stdin))
        /\ run_result = None => pc \in {"run", "run_handle", "run_write"}

(***************************************************************************)
(* C30.  In build_distance_matrix every pair (i, j) with i < j is          *)
(* evaluated exactly once, by one task; no two tasks give a value for the  *)
(* same cell; and the matrix that is returned is the same whatever the     *)
(* order in which the tasks finish: it is the matrix of the sequential     *)
(* definition, which is all simple_dbscan reads.                           *)
(***************************************************************************)
MatrixFilled == pc = "par_matrix_built"

C30_Cells(t) == {<<t.i, t.j>>, <<t.j, t.i>>}

C30_NoCellTwice ==
    \A k, l \in 1..Len(upper_triangle) :
        k # l => C30_Cells(upper_triangle[k]) \cap C30_Cells(upper_triangle[l]) = {}

C30_EachPairOnce ==
    /\ \A k \in 1..Len(upper_triangle) :
          /\ upper_triangle[k].i < upper_triangle[k].j
          /\ upper_triangle[k].j < Len(files)
    /\ \A i, j \in 0..(Len(files) - 1) :
          i < j => Cardinality({k \in 1..Len(upper_triangle) :
                                   /\ upper_triangle[k].i = i
                                   /\ upper_triangle[k].j = j}) = 1

C30_OrderIndependent ==
    /\ C30_NoCellTwice
    /\ MatrixFilled =>
          /\ C30_EachPairOnce
          /\ distances = build_distance_matrix(files)

\* Three files whose tasks finished last pair first, with distances that
\* differ from cell to cell.
C30_Witness ==
    /\ MatrixFilled
    /\ Len(files) = 3
    /\ upper_triangle[1].i = 1
    /\ upper_triangle[3].i = 0 /\ upper_triangle[3].j = 1
    /\ distances[0][1] # distances[1][2]
    /\ distances[0][2] # distances[0][1]
    /\ C30_EachPairOnce

====
